---------------------------- MODULE Spec2Model ----------------------------
(***************************************************************************)
(* A model of src/app.py, the Streamlit disaster dashboard.                *)
(*                                                                         *)
(* The script is re-executed top to bottom on every interaction.  The      *)
(* model has several specifications over one set of variables:             *)
(*                                                                         *)
(*   SpecRace  story step 3: make_bar_race_with_trail and its caller,      *)
(*             applied to every aggregated series within the bounds;       *)
(*   Spec      the session: runs of the script section by section, the     *)
(*             session_state they keep, and the clicks between runs;       *)
(*   SpecStory the session with every widget of the story: its buttons,    *)
(*             the region radio, the End year slider, the Focus radio;     *)
(*   SpecGlobe the session with the controls of the globe;                 *)
(*   SpecColor the construction of DISASTER_COLOR_MAP in the first run,    *)
(*             for every set of types and every palette within the bounds  *)
(*             (SpecColorFair: the script goes on);                        *)
(*   SpecPicto the pictogram of the Korea section: its icons, the Reset    *)
(*             branch and the Play loop (SpecPictoFair: the loop goes on); *)
(*   SpecPictoUse the pictogram across runs: selections that change, and   *)
(*             interactions that abandon a Play loop;                      *)
(*   SpecAgg   the aggregations of the charts, applied to every table and  *)
(*             every selection within the bounds;                          *)
(*   SpecKorea the Korea table from load_data through normalize_korea_df.  *)
(*                                                                         *)
(* Numbers that the code keeps as floats are kept exact here: a cap is     *)
(* held in hundredths (x_cap * 100), an axis range in ten-thousandths.     *)
(***************************************************************************)
EXTENDS Integers, Sequences, FiniteSets, TLC

(***************************************************************************)
(* Bounds of the model.                                                    *)
(***************************************************************************)
\* largest value of one (year, type) cell of an aggregated series
MaxVal == 2
\* largest number of (year, type) rows of an aggregated series
MaxRows == 3
\* topN is drawn from 1..MaxTopN
MaxTopN == 2
\* trail_years of the model: every k in 1..MaxTrail is looked up
MaxTrail == 2

\* the years an aggregated series may hold
Years == 1998..2000

\* The disaster types of the model, in the order Python's sorted() gives.
TypeOrder == <<"Drought", "Fire (Miscellaneous)", "Flood", "Fog", "Storm">>

Types == {TypeOrder[i] : i \in 1..Len(TypeOrder)}

\* the types the aggregated series of the bar race may hold
RaceTypes == {"Drought", "Flood", "Storm"}

\* position of a label in lexicographic order
Rank(t) == CHOOSE i \in 1..Len(TypeOrder) : TypeOrder[i] = t

(***************************************************************************)
(* Helpers.                                                                *)
(***************************************************************************)
Min(a, b) == IF a <= b THEN a ELSE b

Max(a, b) == IF a >= b THEN a ELSE b

Range(s) == {s[i] : i \in 1..Len(s)}

\* Python's None, and a present value
NoneVal == <<>>

Some(v) == <<v>>

\* the first n elements of a sequence (DataFrame.head)
Head_n(s, n) == SubSeq(s, 1, Min(n, Len(s)))

RECURSIVE Perms(_)
\* every ordering of a finite set
Perms(S) ==
    IF S = {} THEN {<<>>}
    ELSE UNION {{<<x>> \o p : p \in Perms(S \ {x})} : x \in S}

RECURSIVE SortedInts(_)
\* sorted(set of integers), ascending
SortedInts(S) ==
    IF S = {} THEN <<>>
    ELSE LET m == CHOOSE x \in S : \A z \in S : x <= z
         IN  <<m>> \o SortedInts(S \ {m})

(***************************************************************************)
(* make_bar_race_with_trail (src/app.py 933-1154).                         *)
(*                                                                         *)
(* An aggregated series is a set of rows [y, t, v], one per (year, type):  *)
(* the yearly table of story_agg_no_window projected on y_col (945).       *)
(***************************************************************************)

\* RaceFilter with the year bound off by one
RaceFilter_strict(df, year_end) == {r \in df : r.y < year_end /\ r.v > 0}

\* 945-947: rows up to year_end whose value is positive
RaceFilter(df, year_end) == {r \in df : r.y <= year_end /\ r.v > 0}

\* 952: sorted(d["Start Year"].unique())
RaceYears(d) == SortedInts({r.y : r \in d})

RECURSIVE ValuesAsc(_)
\* the values of all rows, ascending (what Series.quantile sorts)
ValuesAsc(d) ==
    IF d = {} THEN <<>>
    ELSE LET m == CHOOSE r \in d : \A z \in d : r.v <= z.v
         IN  <<m.v>> \o ValuesAsc(d \ {m})

\* 956: q, in hundredths
QuantileOf(y_col) == IF y_col = "Deaths" THEN 98 ELSE 95

\* Series.quantile(q), linear interpolation, times 100
Quantile100(vals, q100) ==
    LET n   == Len(vals)
        pos == (n - 1) * q100
        lo  == pos \div 100
        fr  == pos % 100
    IN  IF fr = 0 THEN 100 * vals[lo + 1]
        ELSE 100 * vals[lo + 1] + fr * (vals[lo + 2] - vals[lo + 1])

\* 958-959: x_cap = max(quantile, 1.0), times 100
XCap(d, y_col) == Max(Quantile100(ValuesAsc(d), QuantileOf(y_col)), 100)

\* 961: x_max = x_cap * 1.15, times 10000
XMax(cap100) == cap100 * 115

\* the rows of one year
RowsOfYear(d, y) == {r \in d : r.y = y}

\* 964: sort_values(y_col, ascending=False).  The default sort kind is
\* quicksort, which is not stable: rows of equal value come in any order.
SortValuesDesc(rows) ==
    {p \in Perms(rows) : \A i \in 1..(Len(p) - 1) : p[i].v >= p[i + 1].v}

RECURSIVE SortChoices(_, _)
\* one admissible sort outcome per year of the list ys
SortChoices(d, ys) ==
    IF ys = <<>> THEN {<<>>}
    ELSE {<<o>> \o rest : o \in SortValuesDesc(RowsOfYear(d, Head(ys))),
                          rest \in SortChoices(d, Tail(ys))}

\* top_for_year keeping one row too many
top_for_year_off(g_sorted, topN, cap100) ==
    LET g == Head_n(g_sorted, topN + 1)
    IN  [order     |-> [i \in 1..Len(g) |-> g[i].t],
         vals_plot |-> [i \in 1..Len(g) |-> Min(100 * g[i].v, cap100)],
         vals_raw  |-> [i \in 1..Len(g) |-> g[i].v]]

\* 963-971: top_for_year, given the sort outcome g_sorted of year y:
\* order, vals_plot (capped, times 100) and vals_raw of the first topN rows
top_for_year(g_sorted, topN, cap100) ==
    LET g == Head_n(g_sorted, topN)
    IN  [order     |-> [i \in 1..Len(g) |-> g[i].t],
         vals_plot |-> [i \in 1..Len(g) |-> Min(100 * g[i].v, cap100)],
         vals_raw  |-> [i \in 1..Len(g) |-> g[i].v]]

\* 975: the pivot table's index (years) and columns (types)
PivotIndex(d) == {r.y : r \in d}

PivotColumns(d) == {r.t : r \in d}

\* 975: pivot.loc[y, t]; a (year, type) cell without a row is filled with 0
PivotLoc(d, y, t) ==
    IF \E r \in d : r.y = y /\ r.t = t
    THEN (CHOOSE r \in d : r.y = y /\ r.t = t).v
    ELSE 0

\* TrailPoint on a pivot table whose empty cells were not filled with 0
TrailPoint_nofill(d, prev_y, t) ==
    IF \E r \in d : r.y = prev_y /\ r.t = t
    THEN Some(PivotLoc(d, prev_y, t))
    ELSE NoneVal

\* 1003, 1031: one trail point, or None
TrailPoint(d, prev_y, t) ==
    IF prev_y \in PivotIndex(d) /\ t \in PivotColumns(d)
    THEN Some(PivotLoc(d, prev_y, t))
    ELSE NoneVal

\* 999-1015, 1025-1043: the trail traces of year y for the bars in order
Trails(d, y, order, trail_years) ==
    [k \in 1..trail_years |->
        [i \in 1..Len(order) |-> TrailPoint(d, y - k, order[i])]]

\* Frame with the cap recomputed from the rows of its own year
Frame_owncap(d, y, g_sorted, topN, cap100, trail_years) ==
    LET top == top_for_year(g_sorted, topN, XCap(RowsOfYear(d, y), "Deaths"))
    IN  [name          |-> y,
         bar_x         |-> top.vals_plot,
         bar_y         |-> top.order,
         text          |-> top.vals_raw,
         customdata    |-> top.vals_raw,
         trails        |-> Trails(d, y, top.order, trail_years),
         categoryarray |-> top.order,
         xaxis_range   |-> NoneVal]

\* 1019-1069: the frame of year y
Frame(d, y, g_sorted, topN, cap100, trail_years) ==
    LET top == top_for_year(g_sorted, topN, cap100)
    IN  [name          |-> y,
         bar_x         |-> top.vals_plot,
         bar_y         |-> top.order,
         text          |-> top.vals_raw,
         customdata    |-> top.vals_raw,
         trails        |-> Trails(d, y, top.order, trail_years),
         categoryarray |-> top.order,
         xaxis_range   |-> NoneVal]

\* 1111-1134: the slider's steps, one label per year of the list
SliderSteps(ys) == [i \in 1..Len(ys) |-> ys[i]]

\* 952-1154: the figure, for the filtered rows d and the sort outcomes srt
\* (one per year of years, in order)
RaceFigure(d, y_col, topN, trail_years, srt) ==
    LET years  == RaceYears(d)
        cap100 == XCap(d, y_col)
        top0   == top_for_year(srt[1], topN, cap100)
    IN  [x_cap       |-> cap100,
         xaxis_range |-> Some(<<0, XMax(cap100)>>),
         bar_x       |-> top0.vals_plot,
         bar_y       |-> top0.order,
         text        |-> top0.vals_raw,
         trails      |-> Trails(d, years[1], top0.order, trail_years),
         frames      |-> [i \in 1..Len(years) |->
                            Frame(d, years[i], srt[i], topN, cap100,
                                  trail_years)],
         steps       |-> SliderSteps(years)]

\* the x-axis range in force while a frame is shown: the frame's own layout
\* if it sets one, else the figure's (1077, 1143)
FrameXRange(fig, f) ==
    IF f.xaxis_range # NoneVal THEN f.xaxis_range ELSE fig.xaxis_range

\* 945-1154: the results make_bar_race_with_trail can return: {None} for
\* an empty filtered series, else one figure per outcome of the sorts
make_bar_race_with_trail(df, y_col, year_end, topN, trail_years) ==
    LET d == RaceFilter(df, year_end)
    IN  IF d = {} THEN {NoneVal}
        ELSE {RaceFigure(d, y_col, topN, trail_years, srt) :
                 srt \in SortChoices(d, RaceYears(d))}

(***************************************************************************)
(* The loaded tables.  df_raw is a sequence of rows                        *)
(* [year, type, region, deaths]; df_korea_raw of rows [year, type, deaths].*)
(***************************************************************************)

\* the distinct values of df["Disaster Type"]
TypesOf(df) == {df[i].type : i \in DOMAIN df}

RECURSIVE SortedTypes(_)
\* sorted(S) for a set of labels
SortedTypes(S) ==
    IF S = {} THEN <<>>
    ELSE LET m == CHOOSE x \in S : \A z \in S : Rank(x) <= Rank(z)
         IN  <<m>> \o SortedTypes(S \ {m})

\* 98: all_types = sorted(df_raw["Disaster Type"].dropna().unique())
all_types(df) == SortedTypes(TypesOf(df))

\* the number of rows of type t
CountOf(df, t) == Cardinality({i \in DOMAIN df : df[i].type = t})

RECURSIVE SumDeathsUpTo(_, _, _)
\* the sum of deaths over the rows 1..n of type t
SumDeathsUpTo(df, t, n) ==
    IF n = 0 THEN 0
    ELSE SumDeathsUpTo(df, t, n - 1)
           + (IF df[n].type = t THEN df[n].deaths ELSE 0)

SumDeaths(df, t) == SumDeathsUpTo(df, t, Len(df))

\* the index of the first row of type t
FirstRow(df, t) == CHOOSE i \in DOMAIN df :
                     df[i].type = t /\ \A j \in 1..(i - 1) : df[j].type # t

RECURSIVE OrderDesc(_, _, _)
\* the labels of S by descending score, ties by ascending tie
OrderDesc(S, score, tie) ==
    IF S = {} THEN <<>>
    ELSE LET m == CHOOSE x \in S : \A z \in S :
                    \/ score[x] > score[z]
                    \/ score[x] = score[z] /\ tie[x] <= tie[z]
         IN  <<m>> \o OrderDesc(S \ {m}, score, tie)

\* 87, 362-368, 546-552: value_counts().nlargest(n).index.tolist(); equal
\* counts are kept in order of first appearance
TopByCount(df, n) ==
    Head_n(OrderDesc(TypesOf(df),
                     [t \in TypesOf(df) |-> CountOf(df, t)],
                     [t \in TypesOf(df) |-> FirstRow(df, t)]), n)

\* 671-678, 1434-1440: groupby(type)[deaths].sum(), largest n first; the
\* groups come sorted by label
TopByDeaths(df, n) ==
    Head_n(OrderDesc(TypesOf(df),
                     [t \in TypesOf(df) |-> SumDeaths(df, t)],
                     [t \in TypesOf(df) |-> Rank(t)]), n)

\* df[mask]: the rows of a table at the indices idx, in order
SelectRows(df, idx) ==
    [k \in 1..Cardinality(idx) |->
       df[CHOOSE i \in idx : Cardinality({j \in idx : j <= i}) = k]]

\* 538-540, 663-665, 837-838: the rows of a region, all rows for "Global"
RegionRows(df, region) ==
    SelectRows(df, {i \in DOMAIN df :
                      region = "Global" \/ df[i].region = region})

\* the largest Start Year
MaxYear(df) == CHOOSE y \in {df[i].year : i \in DOMAIN df} :
                 \A i \in DOMAIN df : df[i].year <= y

\* the entries of a list that are in a set, in the list's order
RECURSIVE FilterSeq(_, _)
FilterSeq(s, S) ==
    IF s = <<>> THEN <<>>
    ELSE (IF Head(s) \in S THEN <<Head(s)>> ELSE <<>>) \o FilterSeq(Tail(s), S)

(***************************************************************************)
(* Colors (91-134).                                                        *)
(***************************************************************************)

\* 101-110: manual_colors
manual_colors ==
    [t \in {"Flood", "Storm", "Drought", "Wildfire", "Earthquake",
            "Landslide", "Extreme temperature", "Epidemic"} |->
       CASE t = "Flood" -> "#4c78a8"
         [] t = "Storm" -> "#f58518"
         [] t = "Drought" -> "#e45756"
         [] t = "Wildfire" -> "#ffbf00"
         [] t = "Earthquake" -> "#72b7b2"
         [] t = "Landslide" -> "#54a24b"
         [] t = "Extreme temperature" -> "#b279a2"
         [] t = "Epidemic" -> "#ff9da6"]

\* 115: set(manual_colors.values())
ManualColorSet == {manual_colors[t] : t \in DOMAIN manual_colors}

\* 478, 984: DISASTER_COLOR_MAP.get(t, dflt)
ColorGet(cmap, t, dflt) == IF t \in DOMAIN cmap THEN cmap[t] ELSE dflt

\* 618, 752, 1480: color_discrete_map=cmap; Plotly Express draws a value the
\* map has no entry for in a color of its default sequence
PxColor(cmap, t) == ColorGet(cmap, t, "px_default")

\* 114-116: the locals of the loop before its first iteration
ColorLoopStart ==
    [i |-> 1, palette_index |-> 0, used_colors |-> ManualColorSet,
     cmap |-> <<>>]

\* 125, 128: palette[palette_index % len(palette)]
PaletteAt(pal, palette_index) == pal[(palette_index % Len(pal)) + 1]

\* 118-130: whether the iteration for t assigns a color now, the while
\* condition of 125 being false or t having a manual color
CanAssign(pal, loc, t) ==
    t \in DOMAIN manual_colors
      \/ PaletteAt(pal, loc.palette_index) \notin loc.used_colors

\* AssignColor without used_colors.add(color)
AssignColor_noadd(pal, loc, t) ==
    IF t \in DOMAIN manual_colors
    THEN [loc EXCEPT !.cmap = (t :> manual_colors[t]) @@ @,
                     !.i = @ + 1]
    ELSE LET c == PaletteAt(pal, loc.palette_index)
         IN  [loc EXCEPT !.cmap = (t :> c) @@ @,
                         !.palette_index = (@ + 1) % Len(pal),
                         !.i = @ + 1]

\* 120-121, 128-130: the locals after the color of t is assigned.  Only
\* palette_index % len(palette) is ever read, so the index is kept modulo
\* len(palette).
AssignColor(pal, loc, t) ==
    IF t \in DOMAIN manual_colors
    THEN [loc EXCEPT !.cmap = (t :> manual_colors[t]) @@ @,
                     !.i = @ + 1]
    ELSE LET c == PaletteAt(pal, loc.palette_index)
         IN  [loc EXCEPT !.cmap = (t :> c) @@ @,
                         !.used_colors = @ \cup {c},
                         !.palette_index = (@ + 1) % Len(pal),
                         !.i = @ + 1]

\* a turn of the while loop that leaves the index where it is
SkipColor_stay(pal, loc) == loc

\* 125-126: one turn of the while loop
SkipColor(pal, loc) ==
    [loc EXCEPT !.palette_index = (@ + 1) % Len(pal)]

(***************************************************************************)
(* session_state: a function from keys to values.  A key is a tuple: the   *)
(* key "story_step" is <<"story_step">>, f"globe_type_{t}" is              *)
(* <<"globe_type", t>>, f"chk_{region}_{t}" is <<"chk", region, t>>.       *)
(***************************************************************************)
K1(name) == <<name>>

K2(name, t) == <<name, t>>

K3(name, region, t) == <<name, region, t>>

\* k in st.session_state
Has(ss, k) == k \in DOMAIN ss

\* st.session_state[k] = v
SetKey(ss, k, v) == (k :> v) @@ ss

\* if k not in st.session_state: st.session_state[k] = v
SetDefault(ss, k, v) == ss @@ (k :> v)

\* del st.session_state[k] for the keys of K that are present
DelKeys(ss, K) == [k \in DOMAIN ss \ K |-> ss[k]]

\* the keys f"{name}_{t}" of a list of types, each mapped to v
TypeKeys(name, types, v) == [k \in {K2(name, t) : t \in Range(types)} |-> v]

\* the types of a list whose checkbox f"{name}_{t}" is checked
Checked(ss, name, types) ==
    FilterSeq(types, {t \in Range(types) : ss[K2(name, t)]})

\* 792-793: next_step
next_step(ss) == [ss EXCEPT ![K1("story_step")] = @ + 1]

\* 795-796: prev_step
prev_step(ss) == [ss EXCEPT ![K1("story_step")] = Max(0, @ - 1)]

\* reset_story clearing the whole session state
reset_story_clear(ss) == <<>>

\* reset_story deleting the step only
reset_story_steponly(ss) == DelKeys(ss, {K1("story_step")})

\* 799-803: reset_story
reset_story(ss) ==
    DelKeys(ss, {K1("story_step"), K1("story_region"), K1("story_year_end"),
                 K1("story_metric_mode")})

(***************************************************************************)
(* Story aggregation (826-862).                                            *)
(***************************************************************************)

\* a year filter that also drops the last year the table has
StoryRows_relmax(df, region, year_end) ==
    LET d == RegionRows(df, region)
    IN  SelectRows(d, {i \in DOMAIN d :
                         d[i].year >= 1970 /\ d[i].year <= year_end
                           /\ d[i].year <= MaxYear(d) - 1})

\* 836-840: the rows of the region from 1970 to year_end
StoryRows(df, region, year_end) ==
    LET d == RegionRows(df, region)
    IN  SelectRows(d, {i \in DOMAIN d :
                         d[i].year >= 1970 /\ d[i].year <= year_end})

\* 852-860: the yearly table projected on y_col, one row per (year, type)
StoryYearly(df, region, year_end, y_col) ==
    LET dff == StoryRows(df, region, year_end)
        grp(y, t) == SelectRows(dff, {i \in DOMAIN dff :
                                        dff[i].year = y /\ dff[i].type = t})
    IN  {[y |-> dff[i].year, t |-> dff[i].type,
          v |-> IF y_col = "Occurrences"
                THEN Len(grp(dff[i].year, dff[i].type))
                ELSE SumDeaths(grp(dff[i].year, dff[i].type), dff[i].type)] :
           i \in DOMAIN dff}

(***************************************************************************)
(* Korea (1377-1451), on a table that already has the columns Year,        *)
(* Disaster Type and Total_Deaths.                                         *)
(***************************************************************************)

\* 1428: the rows from start_year on
KoreaFrom(dfk, start_year) ==
    SelectRows(dfk, {i \in DOMAIN dfk : dfk[i].year >= start_year})

\* 1434-1440: top_types of make_korea_panel
KoreaTopTypes(dfk, start_year, top_n) ==
    TopByDeaths(KoreaFrom(dfk, start_year), top_n)

(***************************************************************************)
(* Frames the views assign columns into (src/app.py 420, 592, 717,         *)
(* 1410-1415).  A frame made by .copy(), a boolean selection, a groupby or *)
(* a rename is an object of its own; an assignment into it reaches the     *)
(* loaded table only when the frame is the loaded object itself.           *)
(***************************************************************************)
\* a name bound to the loaded object, without a copy
SharedFrame(rows) == [own |-> FALSE, rows |-> rows]

\* 412-418, 583-588, 708-713, 1382: the frame is a new object
OwnFrame(rows) == [own |-> TRUE, rows |-> rows]

\* the loaded table once the columns of the frame have been assigned
AfterWrites(loaded, frame) == IF frame.own THEN loaded ELSE frame.rows

\* groupby(["Start Year", "Disaster Type"]) over the rows of the given
\* types, one row per group in key order, with the columns cols
GroupFrame(df, types, cols) ==
    LET keys == SortedInts({df[i].year * 10 + Rank(df[i].type) :
                              i \in {j \in DOMAIN df : df[j].type \in types}})
        rowsOf(k) == SelectRows(df, {i \in DOMAIN df :
                                       df[i].year = k \div 10})
    IN  [n \in DOMAIN keys |->
           [c \in {"year", "type"} \cup cols |->
              CASE c = "year" -> keys[n] \div 10
                [] c = "type" -> TypeOrder[keys[n] % 10]
                [] c = "Occurrences" ->
                     CountOf(rowsOf(keys[n]), TypeOrder[keys[n] % 10])
                [] OTHER -> SumDeaths(rowsOf(keys[n]), TypeOrder[keys[n] % 10])]]

\* 1382-1415: dfk after the copy, the rename and the column conversions; on
\* the cleaned rows a session holds the conversions keep every value
KoreaFrame(dfk) ==
    [i \in DOMAIN dfk |->
       [year |-> dfk[i].year, type |-> dfk[i].type, deaths |-> dfk[i].deaths]]
(***************************************************************************)
(* Program constants.                                                      *)
(***************************************************************************)
\* 545, 670: TOP_N; 87, 365: nlargest(5)
TOP_N == 5
\* 1207: topN of the story's bar race
StoryTopN == 5
\* 1208: trail_years of the story's bar race
StoryTrailYears == 6
\* 1372: START_Y; 834, 899: FIXED_START
START_Y == 1970
\* 901: the end year is at most 2025
YearEndCap == 2025

(***************************************************************************)
(* More bounds: the tables and palettes of the model.                      *)
(***************************************************************************)
\* a session has at most this many clicks after its first run
MaxClicks == 4
\* the palettes of SpecColor have 1..MaxPalette entries
MaxPalette == 3
\* a session of SpecStory has at most this many clicks after its first run
MaxStoryClicks == 6

Row(y, t, r, n) == [year |-> y, type |-> t, region |-> r, deaths |-> n]

KRow(y, t, n) == [year |-> y, type |-> t, deaths |-> n]

\* two global tables; every type has rows in more than one year
DataA ==
    <<Row(1998, "Flood", "Asia", 2), Row(1999, "Flood", "Asia", 0),
      Row(2000, "Flood", "Europe", 1), Row(1998, "Fog", "Europe", 0),
      Row(1999, "Fog", "Asia", 1)>>

DataB ==
    <<Row(1998, "Storm", "Asia", 0), Row(1999, "Storm", "Asia", 0),
      Row(2000, "Storm", "Asia", 0),
      Row(1998, "Fire (Miscellaneous)", "Asia", 0),
      Row(2000, "Fire (Miscellaneous)", "Asia", 1)>>

\* two Korea tables: one whose types all occur in DataA, one with a type
\* that occurs in neither global table or only in one
KorA == <<KRow(1998, "Flood", 3), KRow(2003, "Flood", 1)>>

KorB == <<KRow(1998, "Fire (Miscellaneous)", 5), KRow(1998, "Flood", 1)>>

\* 91-96: the first colors of px.colors.qualitative.Plotly
SessionPalette == <<"#636EFA", "#EF553B", "#00CC96">>

\* the colors the palettes of SpecColor are made of: two of the palette and
\* one that is also a manual color
PaletteColors == {"#636EFA", "#EF553B", "#4c78a8"}

Palettes == UNION {[1..n -> PaletteColors] : n \in 1..MaxPalette}

\* a table with one row per type of S
OneRowPerType(S) ==
    [i \in 1..Cardinality(S) |-> Row(1998, SortedTypes(S)[i], "Asia", 0)]

(***************************************************************************)
(* State.                                                                  *)
(***************************************************************************)
VARIABLES
    files,          \* the files the script finds when it opens them
    df_raw,         \* 55: the global table load_data returned
    df_korea_raw,   \* 55: the Korea table
    palette,        \* 91-96: the palette
    session_state,  \* st.session_state
    pc,             \* where the run of the script is: "start", "colormap",
                    \* "globe", "ins1", "area", "deaths", "story", "korea",
                    \* or ended: "done" (end of file), "stopped" (st.stop())
    loc,            \* 114-130: the locals of the color loop, None outside
    clicked,        \* the st.button that triggered this run, or "none"
    widgets,        \* the widgets the run has put on the page
    rendered,       \* the sections the run has rendered: section -> the
                    \* color of every disaster type its chart draws
    advisory,       \* the views that showed a warning or info instead
    n_clicks,       \* the number of clicks the session has yet to come
    race_in,        \* the arguments of make_bar_race_with_trail (1202-1209)
    fig_top_anim,   \* 1202: what it returned (None before the call)
    race_pc,        \* "start", "stopped_nodata" (1170-1172),
                    \* "stopped_nochart" (1211-1213) or "plotted" (1215)
    agg_in,         \* a table and the filters of one aggregation
    agg_out,        \* what the aggregation returned (None before it)
    kor_in,         \* the Korea table as read from its file
    kor_tab,        \* the Korea table on its way through load_data and
                    \* normalize_korea_df, or the exception raised
    kor_pc,         \* "read", "loaded", "normalized", "again", "failed"
    pic_in,         \* 1528, 1579: death_count and UNIT_PER_ICON
    holder,         \* 1594: the steps render() has drawn in the run
    pic_loc         \* the locals of the pictogram's run: where it is (at),
                    \* active_icons, total_icons and the loop's step

sess_vars == <<files, df_raw, df_korea_raw, palette, session_state, pc, loc,
               clicked, widgets, rendered, advisory, n_clicks>>

race_vars == <<race_in, fig_top_anim, race_pc>>

agg_vars == <<agg_in, agg_out>>

kor_vars == <<kor_in, kor_tab, kor_pc>>

pic_vars == <<pic_in, holder, pic_loc>>

vars == <<files, df_raw, df_korea_raw, palette, session_state, pc, loc,
          clicked, widgets, rendered, advisory, n_clicks, race_in,
          fig_top_anim, race_pc, agg_in, agg_out, kor_in, kor_tab, kor_pc,
          pic_in, holder, pic_loc>>

CMAP == K1("DISASTER_COLOR_MAP")

\* 134: DISASTER_COLOR_MAP
DISASTER_COLOR_MAP(ss) == ss[CMAP]

\* the state of a session before its first run, for given tables and
\* palette, the user going to click at most so many times
SessionOf(df, dfk, pal, clicks) ==
    /\ df_raw = df
    /\ df_korea_raw = dfk
    /\ palette = pal
    /\ session_state = <<>>
    /\ pc = "start"
    /\ loc = NoneVal
    /\ clicked = "none"
    /\ widgets = {}
    /\ rendered = <<>>
    /\ advisory = {}
    /\ n_clicks = clicks

SessionStart(df, dfk, pal) == SessionOf(df, dfk, pal, MaxClicks)

\* 25, 30, 31: the files the script opens
AllFiles == {"style.css", "data/public_emdat_1970_2020.csv",
             "data/df_korea.csv"}

\* no aggregation, Korea normalization or pictogram under way
AggIdle == agg_in = NoneVal /\ agg_out = NoneVal

KorIdle == kor_in = NoneVal /\ kor_tab = NoneVal /\ kor_pc = "idle"

PicIdle == pic_in = NoneVal /\ holder = <<>> /\ pic_loc = [at |-> "idle"]

\* the bar race before it is called
RaceIdle ==
    /\ race_in = NoneVal
    /\ fig_top_anim = NoneVal
    /\ race_pc = "idle"

(***************************************************************************)
(* SpecRace: story step 3 on every aggregated series within the bounds.    *)
(***************************************************************************)

\* the values a cell of the yearly table can hold: a group has at least one
\* row (853-857), its deaths can sum to 0
CellValues(y_col) == IF y_col = "Occurrences" THEN 1..MaxVal ELSE 0..MaxVal

\* the key sets of the series story_agg_no_window can return for year_end:
\* no row is after year_end (840)
RaceKeySets(year_end) ==
    {P \in SUBSET ((Years \cap (0..year_end)) \X RaceTypes) :
        Cardinality(P) <= MaxRows}

\* the rows of a series given as a function from its keys
RowsOf(f) == {[y |-> p[1], t |-> p[2], v |-> f[p]] : p \in DOMAIN f}

RaceInit ==
    /\ \E y_col \in {"Occurrences", "Deaths"}, year_end \in Years :
         \E P \in RaceKeySets(year_end) :
           \E f \in [P -> CellValues(y_col)], topN \in 1..MaxTopN,
              trail_years \in {MaxTrail} :
             race_in = [df_yearly   |-> RowsOf(f),
                        y_col       |-> y_col,
                        year_end    |-> year_end,
                        topN        |-> topN,
                        trail_years |-> trail_years]
    /\ fig_top_anim = NoneVal
    /\ race_pc = "start"
    /\ SessionStart(DataA, KorA, SessionPalette)
    /\ files = AllFiles
    /\ AggIdle
    /\ KorIdle
    /\ PicIdle

\* 1157-1215: story step 3 from the aggregation to the chart
StoryStep3 ==
    /\ race_pc = "start"
    /\ IF race_in.df_yearly = {}
       THEN \* 1170-1172: df_sum is empty, warning and st.stop()
            /\ race_pc' = "stopped_nodata"
            /\ fig_top_anim' = fig_top_anim
       ELSE \E f \in make_bar_race_with_trail(race_in.df_yearly,
                       race_in.y_col, race_in.year_end, race_in.topN,
                       race_in.trail_years) :
              /\ fig_top_anim' = f
              \* 1211-1215: None gives a warning and st.stop()
              /\ race_pc' = IF f = NoneVal THEN "stopped_nochart"
                            ELSE "plotted"
    /\ UNCHANGED race_in
    /\ UNCHANGED <<sess_vars, agg_vars, kor_vars, pic_vars>>

RaceNext == StoryStep3

SpecRace == RaceInit /\ [][RaceNext]_vars

(***************************************************************************)
(* Spec: the session.  A run of the script goes through its sections in    *)
(* file order; st.stop() ends the run where it is called.  Between runs    *)
(* the user clicks one widget that the last run put on the page.           *)
(***************************************************************************)

Ended == pc \in {"done", "stopped"}

\* the widgets of a section are added to the page
Show(W) == widgets' = widgets \cup W

\* the charts of a section are drawn, each type in its color
Render(section, colors) == rendered' = (section :> colors) @@ rendered

\* a view shows its warning or info
Advise(view) == advisory' = advisory \cup {view}

\* 21-110: the page set-up of a new run and load_data.  open() of a missing
\* stylesheet raises FileNotFoundError, which nothing catches (21-25); the
\* one raised by read_csv is caught and answered with st.error and st.stop()
\* (54-58).
LoadSection ==
    /\ pc = "start"
    /\ widgets' = {}
    /\ rendered' = <<>>
    /\ IF "style.css" \notin files
       THEN /\ pc' = "raised"
            /\ advisory' = {}
       ELSE IF ~({"data/public_emdat_1970_2020.csv", "data/df_korea.csv"}
                   \subseteq files)
       THEN /\ pc' = "stopped"
            /\ advisory' = {"load"}
       ELSE /\ pc' = "colormap"
            /\ advisory' = {}
    /\ UNCHANGED <<df_raw, df_korea_raw, palette, session_state, loc, clicked>>
    /\ UNCHANGED <<files, n_clicks, race_vars, agg_vars, kor_vars, pic_vars>>

\* 112, 134: the map is in session_state already and is read back
ColorKeep ==
    /\ pc = "colormap"
    /\ Has(session_state, CMAP)
    /\ pc' = "globe"
    /\ UNCHANGED <<df_raw, df_korea_raw, palette, session_state, loc, clicked,
                   widgets, rendered, advisory>>
    /\ UNCHANGED <<files, n_clicks, race_vars, agg_vars, kor_vars, pic_vars>>

\* 112-116: the map is not there, the loop over all_types begins
ColorBegin ==
    /\ pc = "colormap"
    /\ ~Has(session_state, CMAP)
    /\ loc = NoneVal
    /\ loc' = ColorLoopStart
    /\ UNCHANGED <<df_raw, df_korea_raw, palette, session_state, pc, clicked,
                   widgets, rendered, advisory>>
    /\ UNCHANGED <<files, n_clicks, race_vars, agg_vars, kor_vars, pic_vars>>

\* the loop is at a type
InColorLoop == pc = "colormap" /\ loc # NoneVal /\ loc.i <= Len(all_types(df_raw))

\* 118-130: one step of the loop: the type at hand gets its color, or the
\* palette color at hand is used and the index moves on (125-126)
ColorStep ==
    /\ InColorLoop
    /\ loc' = IF CanAssign(palette, loc, all_types(df_raw)[loc.i])
              THEN AssignColor(palette, loc, all_types(df_raw)[loc.i])
              ELSE SkipColor(palette, loc)
    /\ UNCHANGED <<df_raw, df_korea_raw, palette, session_state, pc, clicked,
                   widgets, rendered, advisory>>
    /\ UNCHANGED <<files, n_clicks, race_vars, agg_vars, kor_vars, pic_vars>>

\* 132: the loop is over, the map is stored
ColorStore ==
    /\ pc = "colormap"
    /\ loc # NoneVal
    /\ loc.i > Len(all_types(df_raw))
    /\ session_state' = SetKey(session_state, CMAP, loc.cmap)
    /\ loc' = NoneVal
    /\ pc' = "globe"
    /\ UNCHANGED <<df_raw, df_korea_raw, palette, clicked, widgets, rendered,
                   advisory>>
    /\ UNCHANGED <<files, n_clicks, race_vars, agg_vars, kor_vars, pic_vars>>

\* 87: top_5_disasters
top_5_disasters == TopByCount(df_raw, TOP_N)

\* 138-156: the first values of the globe's keys
GlobeInit(ss, top5) ==
    ss @@ TypeKeys("globe_type", top5, TRUE)
       @@ (K1("globe_metric") :> "Total Occurrences")
       @@ (K1("globe_types") :> top5)
       @@ (K1("globe_render_key") :> 0)
       @@ (K1("globe_reset") :> FALSE)

\* a pending reset that leaves the metric as it is
GlobeHandleReset_types(ss, top5) ==
    IF ss[K1("globe_reset")]
    THEN (K1("globe_reset") :> FALSE)
           @@ (K1("globe_types") :> top5)
           @@ TypeKeys("globe_type", top5, TRUE)
           @@ ss
    ELSE ss

\* 161-173: a pending reset puts the defaults back
GlobeHandleReset(ss, top5) ==
    IF ss[K1("globe_reset")]
    THEN (K1("globe_reset") :> FALSE)
           @@ (K1("globe_metric") :> "Total Occurrences")
           @@ (K1("globe_types") :> top5)
           @@ TypeKeys("globe_type", top5, TRUE)
           @@ ss
    ELSE ss

\* 194-196: the Reset Globe button was clicked
GlobeClickReset(ss) ==
    [ss EXCEPT ![K1("globe_reset")] = TRUE, ![K1("globe_render_key")] = @ + 1]

\* the color of every type of a list, read with .get(t, dflt)
ColorsGet(ss, types, dflt) ==
    [t \in Range(types) |-> ColorGet(DISASTER_COLOR_MAP(ss), t, dflt)]

\* the color of every type of a list in a Plotly Express chart
ColorsPx(ss, types) ==
    [t \in Range(types) |-> PxColor(DISASTER_COLOR_MAP(ss), t)]

\* 138-354: the globe
GlobeSection ==
    /\ pc = "globe"
    /\ LET top5 == top_5_disasters
           s1   == GlobeHandleReset(GlobeInit(session_state, top5), top5)
           sel  == Checked(s1, "globe_type", top5)
       IN  IF clicked = "btn_reset_globe"
           THEN \* 191-197: st.rerun()
                /\ session_state' = GlobeClickReset(s1)
                /\ clicked' = "none"
                /\ pc' = "start"
                /\ Show({"globe_metric", "btn_reset_globe"})
                /\ UNCHANGED <<rendered, advisory>>
           ELSE /\ session_state' = SetKey(s1, K1("globe_types"), sel)
                /\ clicked' = clicked
                /\ Show({"globe_metric", "btn_reset_globe", "globe_type"})
                /\ IF sel = <<>>
                   THEN \* 219-221
                        /\ Advise("globe")
                        /\ pc' = "stopped"
                        /\ UNCHANGED rendered
                   ELSE /\ Render("globe", <<>>)
                        /\ pc' = "ins1"
                        /\ UNCHANGED advisory
    /\ UNCHANGED <<df_raw, df_korea_raw, palette, loc>>
    /\ UNCHANGED <<files, n_clicks, race_vars, agg_vars, kor_vars, pic_vars>>

\* 362-368: top5_global
top5_global == TopByCount(df_raw, 5)

\* the loaded table after a view has grouped the rows of the selected types
\* and assigned a column of the result; nothing is grouped for no selection
WrittenInto(df, sel, cols) ==
    IF sel = <<>> THEN df
    ELSE AfterWrites(df, OwnFrame(GroupFrame(df, Range(sel), cols)))

\* 371-378: the first values of the keys of insight 1
Ins1Init(ss) ==
    ss @@ TypeKeys("ins1_type", top5_global, TRUE)
       @@ (K1("ins1_total_mode") :> FALSE)

\* 358-526: insight 1
Ins1Section ==
    /\ pc = "ins1"
    /\ LET s1  == Ins1Init(session_state)
           sel == Checked(s1, "ins1_type", top5_global)
       IN  /\ session_state' = s1
           /\ Show({"ins1_total_mode", "ins1_type"})
           \* 412-420: out["Start Year"] = ... on the grouped frame
           /\ df_raw' = WrittenInto(df_raw, sel, {"Occurrences", "Deaths"})
           /\ IF sel = <<>>
              THEN \* 399-401
                   /\ Advise("ins1")
                   /\ pc' = "stopped"
                   /\ UNCHANGED rendered
              ELSE \* 478, 493: .get(t, "#888")
                   /\ Render("ins1", ColorsGet(s1, sel, "#888"))
                   /\ pc' = "area"
                   /\ UNCHANGED advisory
    /\ UNCHANGED <<df_korea_raw, palette, loc, clicked>>
    /\ UNCHANGED <<files, n_clicks, race_vars, agg_vars, kor_vars, pic_vars>>

\* the keys f"{name}_{region}_{t}" of a list of types, each mapped to v
RegionTypeKeys(name, region, types, v) ==
    [k \in {K3(name, region, t) : t \in Range(types)} |-> v]

\* the types of a list whose checkbox f"{name}_{region}_{t}" is checked
CheckedIn(ss, name, region, types) ==
    FilterSeq(types, {t \in Range(types) : ss[K3(name, region, t)]})

\* 533-648: the area chart of occurrences, the region radio at "Global"
AreaSection ==
    /\ pc = "area"
    /\ LET top_types == TopByCount(RegionRows(df_raw, "Global"), TOP_N)
           \* 572: value=True for a checkbox that has no state yet
           s1  == session_state @@ RegionTypeKeys("chk", "Global", top_types, TRUE)
           sel == CheckedIn(s1, "chk", "Global", top_types)
       IN  \* 583-596: df_occ["Disaster Type"] = ... on the grouped frame
           /\ df_raw' = WrittenInto(df_raw, sel, {"Occurrences"})
           /\ IF top_types = <<>>
              THEN \* 555-557
                   /\ Advise("area")
                   /\ pc' = "stopped"
                   /\ UNCHANGED <<session_state, widgets, rendered>>
              ELSE /\ session_state' = s1
                   /\ Show({"chk"})
                   /\ IF sel = <<>>
                      THEN \* 576-578
                           /\ Advise("area")
                           /\ pc' = "stopped"
                           /\ UNCHANGED rendered
                      ELSE \* 618: color_discrete_map=color_map
                           /\ Render("area", ColorsPx(s1, sel))
                           /\ pc' = "deaths"
                           /\ UNCHANGED advisory
    /\ UNCHANGED <<df_korea_raw, palette, loc, clicked>>
    /\ UNCHANGED <<files, n_clicks, race_vars, agg_vars, kor_vars, pic_vars>>

\* 652-782: the area chart of deaths, the region radio at "Global"
DeathsSection ==
    /\ pc = "deaths"
    /\ LET top_types == TopByDeaths(RegionRows(df_raw, "Global"), TOP_N)
           \* 697: value=True for a checkbox that has no state yet
           s1  == session_state
                    @@ RegionTypeKeys("chk_deaths", "Global", top_types, TRUE)
           sel == CheckedIn(s1, "chk_deaths", "Global", top_types)
       IN  \* 708-721: df_deaths["Disaster Type"] = ... on the grouped frame
           /\ df_raw' = WrittenInto(df_raw, sel, {"Deaths"})
           /\ IF top_types = <<>>
              THEN \* 681-683
                   /\ Advise("deaths")
                   /\ pc' = "stopped"
                   /\ UNCHANGED <<session_state, widgets, rendered>>
              ELSE /\ session_state' = s1
                   /\ Show({"chk_deaths"})
                   /\ IF sel = <<>>
                      THEN \* 701-703
                           /\ Advise("deaths")
                           /\ pc' = "stopped"
                           /\ UNCHANGED rendered
                      ELSE \* 752: color_discrete_map=color_map
                           /\ Render("deaths", ColorsPx(s1, sel))
                           /\ pc' = "story"
                           /\ UNCHANGED advisory
    /\ UNCHANGED <<df_korea_raw, palette, loc, clicked>>
    /\ UNCHANGED <<files, n_clicks, race_vars, agg_vars, kor_vars, pic_vars>>

STEP == K1("story_step")

\* 901: max_year of the end-year slider
StoryMaxYear == Min(YearEndCap, MaxYear(df_raw) - 1)

\* the buttons of the story, Next being shown at step 4 as well
StoryButtons_next4(step) ==
    {"btn_reset_story"}
      \cup (IF step > 0 THEN {"btn_back", "btn_next"} ELSE {})
      \cup (IF step = 0 THEN {"btn_start"} ELSE {})

\* 804-821, 872: the buttons the story shows at a step
StoryButtons(step) ==
    {"btn_reset_story"}
      \cup (IF step > 0 THEN {"btn_back"} ELSE {})
      \cup (IF 0 < step /\ step < 4 THEN {"btn_next"} ELSE {})
      \cup (IF step = 0 THEN {"btn_start"} ELSE {})

\* 880: regions
StoryRegions == {"Global"} \cup {df_raw[i].region : i \in DOMAIN df_raw}

\* 880-889: step 1, the region radio returning the option the user picked
\* or else the stored one (the first one if the stored one is no option)
StoryStep1(ss, pick) ==
    LET s1 == SetDefault(ss, K1("story_region"), "Global")
    IN  IF pick \in StoryRegions
        THEN SetKey(s1, K1("story_region"), pick)
        ELSE IF s1[K1("story_region")] \in StoryRegions THEN s1
        ELSE SetKey(s1, K1("story_region"), "Global")

\* the positions the user moves the end-year slider to
YearPicks == ("year_1970" :> 1970) @@ ("year_1998" :> 1998)

\* 903-927: step 2, the slider and the Focus radio each returning what the
\* user picked or else the stored value
StoryStep2(ss, max_year, pick) ==
    LET s0 == SetDefault(ss, K1("story_year_end"), max_year)
        sy == IF pick \in DOMAIN YearPicks
              THEN SetKey(s0, K1("story_year_end"), YearPicks[pick])
              ELSE s0
        s1 == SetDefault(sy, K1("story_metric_mode"), "Occurrences")
    IN  IF pick = "focus_Occurrences"
        THEN SetKey(s1, K1("story_metric_mode"), "Occurrences")
        ELSE IF pick = "focus_Deaths"
        THEN SetKey(s1, K1("story_metric_mode"), "Deaths")
        ELSE s1

\* .get(k, dflt) of session_state
Get(ss, k, dflt) == IF Has(ss, k) THEN ss[k] ELSE dflt

\* 786-1349: the story
StorySection ==
    /\ pc = "story"
    /\ LET s1   == SetDefault(session_state, STEP, 0)
           step == s1[STEP]
           s2   == IF step = 1 THEN StoryStep1(s1, clicked)
                   ELSE IF step = 2 THEN StoryStep2(s1, StoryMaxYear, clicked)
                   ELSE s1
           \* 1159-1166
           region   == Get(s2, K1("story_region"), "Global")
           year_end == Get(s2, K1("story_year_end"), MaxYear(df_raw) - 1)
           focus    == Get(s2, K1("story_metric_mode"), "Occurrences")
           df_sum   == StoryRows(df_raw, region, year_end)
           y_col    == IF focus = "Occurrences" THEN "Occurrences" ELSE "Deaths"
           yearly   == StoryYearly(df_raw, region, year_end, y_col)
           figs     == make_bar_race_with_trail(yearly, y_col, year_end,
                                                StoryTopN, StoryTrailYears)
           \* 1170-1172, 1211-1213
           stop3    == df_sum = <<>> \/ figs = {NoneVal}
           \* 1229: the select box at its first option
           choice   == all_types(df_raw)[1]
       IN  /\ session_state' = s2
           /\ Show(StoryButtons(step)
                     \cup (IF step = 1 THEN {"story_region"} ELSE {})
                     \cup (IF step = 2
                           THEN {"story_year_end", "story_metric_mode"}
                           ELSE {}))
           /\ IF step = 3 /\ stop3
              THEN /\ Advise("story")
                   /\ pc' = "stopped"
                   /\ UNCHANGED rendered
              ELSE /\ Render("story",
                        IF step = 3
                        THEN \* 984: .get(t, "#888")
                             ColorsGet(s2, SortedTypes({r.t : r \in yearly}),
                                       "#888")
                        ELSE IF step = 4
                        THEN \* 1272: .get(choice, "#1f77b4")
                             ColorsGet(s2, <<choice>>, "#1f77b4")
                        ELSE <<>>)
                   /\ pc' = "korea"
                   /\ UNCHANGED advisory
    /\ UNCHANGED <<df_raw, df_korea_raw, palette, loc, clicked>>
    /\ UNCHANGED <<files, n_clicks, race_vars, agg_vars, kor_vars, pic_vars>>

\* 1457-1517: the Korea charts
KoreaSection ==
    /\ pc = "korea"
    /\ LET top_5_kor == KoreaTopTypes(df_korea_raw, START_Y, 5)
       IN  IF top_5_kor = <<>>
           THEN \* 1464-1466
                /\ Advise("korea")
                /\ pc' = "stopped"
                /\ UNCHANGED rendered
           ELSE \* 1473-1482: color_discrete_map=DISASTER_COLOR_MAP
                /\ Render("korea", ColorsPx(session_state, top_5_kor))
                /\ pc' = "done"
                /\ UNCHANGED advisory
    \* 1382-1415: normalize_korea_df assigns the columns of its own copy
    /\ df_korea_raw' = AfterWrites(df_korea_raw,
                                   OwnFrame(KoreaFrame(df_korea_raw)))
    /\ UNCHANGED <<df_raw, palette, session_state, loc, clicked, widgets>>
    /\ UNCHANGED <<files, n_clicks, race_vars, agg_vars, kor_vars, pic_vars>>

(***************************************************************************)
(* The clicks between runs.  A click changes the widget's state, runs the  *)
(* on_click callback if there is one, and starts a new run.                *)
(***************************************************************************)

\* a click on widget w that leaves session_state as ss and is seen by the
\* run as c
Click(w, ss, c) ==
    /\ Ended
    /\ w \in widgets
    /\ n_clicks > 0
    /\ n_clicks' = n_clicks - 1
    /\ session_state' = ss
    /\ clicked' = c
    /\ pc' = "start"
    /\ UNCHANGED <<df_raw, df_korea_raw, palette, loc, widgets, rendered,
                   advisory>>
    /\ UNCHANGED <<files, race_vars, agg_vars, kor_vars, pic_vars>>

Toggle(ss, k) == [ss EXCEPT ![k] = ~@]

\* 209-216: a globe checkbox
ToggleGlobeType ==
    \E t \in Range(top_5_disasters) :
      Click("globe_type", Toggle(session_state, K2("globe_type", t)), "none")

\* 191-197: the Reset Globe button
ClickResetGlobe ==
    Click("btn_reset_globe", session_state, "btn_reset_globe")

\* 394-397: a checkbox of insight 1
ToggleIns1Type ==
    \E t \in Range(top5_global) :
      Click("ins1_type", Toggle(session_state, K2("ins1_type", t)), "none")

\* 570-573: a checkbox of the occurrences area chart
ToggleAreaType ==
    \E t \in Range(TopByCount(df_raw, TOP_N)) :
      Click("chk", Toggle(session_state, K3("chk", "Global", t)), "none")

\* 695-698: a checkbox of the deaths area chart
ToggleDeathsType ==
    \E t \in Range(TopByDeaths(df_raw, TOP_N)) :
      Click("chk_deaths",
            Toggle(session_state, K3("chk_deaths", "Global", t)), "none")

\* 872: Start
ClickStart == Click("btn_start", next_step(session_state), "none")

\* 816: Next
ClickNext == Click("btn_next", next_step(session_state), "none")

\* 812: Back
ClickBack == Click("btn_back", prev_step(session_state), "none")

\* 821: Reset Story
ClickResetStory == Click("btn_reset_story", reset_story(session_state), "none")

\* 921-926: the Focus radio of step 2
ChooseFocus ==
    \E m \in {"focus_Occurrences", "focus_Deaths"} :
      Click("story_metric_mode", session_state, m)

\* 179-184: the metric radio of the globe, a widget with a key
ChooseGlobeMetric ==
    \E m \in {"Total Occurrences", "Total Deaths", "Total Affected"} :
      Click("globe_metric", SetKey(session_state, K1("globe_metric"), m),
            "none")

\* 884-889: the region radio of step 1
ChooseRegion == \E r \in StoryRegions : Click("story_region", session_state, r)

\* 906-912: the end-year slider of step 2
ChooseYearEnd ==
    \E p \in DOMAIN YearPicks :
      /\ YearPicks[p] <= StoryMaxYear
      /\ Click("story_year_end", session_state, p)

Init ==
    /\ \E df \in {DataA, DataB}, dfk \in {KorA, KorB} :
         SessionStart(df, dfk, SessionPalette)
    /\ files \in SUBSET AllFiles
    /\ RaceIdle
    /\ AggIdle
    /\ KorIdle
    /\ PicIdle

Next ==
    \/ LoadSection
    \/ ColorKeep
    \/ ColorBegin
    \/ ColorStep
    \/ ColorStore
    \/ GlobeSection
    \/ Ins1Section
    \/ AreaSection
    \/ DeathsSection
    \/ StorySection
    \/ KoreaSection
    \/ ToggleGlobeType
    \/ ClickResetGlobe
    \/ ToggleIns1Type
    \/ ToggleAreaType
    \/ ToggleDeathsType
    \/ ClickStart
    \/ ClickNext
    \/ ClickBack
    \/ ClickResetStory
    \/ ChooseFocus

Spec == Init /\ [][Next]_vars

(***************************************************************************)
(* SpecColor: the first run up to the stored color map, for every set of   *)
(* types and every palette within the bounds.                              *)
(***************************************************************************)
ColorInit ==
    /\ \E S \in SUBSET Types \ {{}}, pal \in Palettes :
         SessionStart(OneRowPerType(S), KorA, pal)
    /\ files = AllFiles
    /\ RaceIdle
    /\ AggIdle
    /\ KorIdle
    /\ PicIdle

ColorNext ==
    \/ LoadSection
    \/ ColorBegin
    \/ ColorStep
    \/ ColorStore

SpecColor == ColorInit /\ [][ColorNext]_vars

\* the script goes on running while it has a next statement
SpecColorFair == SpecColor /\ WF_vars(ColorNext)

(***************************************************************************)
(* SpecStory: a session in which the user works the story only, and        *)
(* SpecGlobe: one in which the user works the controls of the globe only.  *)
(***************************************************************************)
StoryInit ==
    /\ SessionOf(DataA, KorA, SessionPalette, MaxStoryClicks)
    /\ files = AllFiles
    /\ RaceIdle
    /\ AggIdle
    /\ KorIdle
    /\ PicIdle

\* a run of the script, section by section
RunNext ==
    \/ LoadSection
    \/ ColorKeep
    \/ ColorBegin
    \/ ColorStep
    \/ ColorStore
    \/ GlobeSection
    \/ Ins1Section
    \/ AreaSection
    \/ DeathsSection
    \/ StorySection
    \/ KoreaSection

StoryNext ==
    \/ RunNext
    \/ ClickStart
    \/ ClickNext
    \/ ClickBack
    \/ ClickResetStory
    \/ ChooseRegion
    \/ ChooseYearEnd
    \/ ChooseFocus

SpecStory == StoryInit /\ [][StoryNext]_vars

GlobeStart ==
    /\ \E df \in {DataA, DataB} : SessionStart(df, KorA, SessionPalette)
    /\ files = AllFiles
    /\ RaceIdle
    /\ AggIdle
    /\ KorIdle
    /\ PicIdle

GlobeNext ==
    \/ RunNext
    \/ ToggleGlobeType
    \/ ClickResetGlobe
    \/ ChooseGlobeMetric

SpecGlobe == GlobeStart /\ [][GlobeNext]_vars
(***************************************************************************)
(* SpecPicto: the pictogram (1523-1627) for every death count and every    *)
(* number of deaths per icon within the bounds.                            *)
(***************************************************************************)
\* death_count is drawn from 0..MaxDeaths
MaxDeaths == 101
\* UNIT_PER_ICON is drawn from 1..MaxUnit (the code has 1)
MaxUnit == 10

\* 1580: base_icons
base_icons == 430

\* the quotient rounded down
ActiveIcons_floor(death_count, unit) == death_count \div unit

\* 1581: math.ceil(death_count / UNIT_PER_ICON).  The quotient is a float;
\* for counts below 2^53 its ceiling is the ceiling of the exact quotient.
ActiveIcons(death_count, unit) ==
    IF death_count % unit = 0 THEN death_count \div unit
    ELSE (death_count \div unit) + 1

\* 1585-1592: active_class
ActiveClass(death_count) ==
    IF death_count = 0 THEN ""
    ELSE IF death_count > 100 THEN "active-red"
    ELSE IF death_count > 50 THEN "active-orange"
    ELSE "active-yellow"

\* 1596-1610: render(step): total_icons icons, the first step of them in the
\* active class
render(step, active_icons, total_icons, cls) ==
    [highlighted |-> Max(0, Min(step, active_icons)),
     icons       |-> total_icons,
     cls         |-> cls]

PSTEP == K1("pictogram_step")

\* the context check without the reset of the step
PicState_keepstep(ss, current_context) ==
    LET s1 == SetDefault(ss, K1("pictogram_context"), current_context)
        s2 == IF s1[K1("pictogram_context")] # current_context
              THEN (K1("pictogram_context") :> current_context)
                     @@ (K1("pictogram_active") :> FALSE) @@ s1
              ELSE s1
    IN  SetDefault(SetDefault(s2, PSTEP, 0), K1("pictogram_active"), FALSE)

\* 1533-1547: the context check and the first values of the keys
PicState(ss, current_context) ==
    LET s1 == SetDefault(ss, K1("pictogram_context"), current_context)
        s2 == IF s1[K1("pictogram_context")] # current_context
              THEN (K1("pictogram_context") :> current_context)
                     @@ (PSTEP :> 0) @@ (K1("pictogram_active") :> FALSE)
                     @@ s1
              ELSE s1
    IN  SetDefault(SetDefault(s2, PSTEP, 0), K1("pictogram_active"), FALSE)

PicInit ==
    /\ \E d \in 0..MaxDeaths, u \in 1..MaxUnit :
         pic_in = [death_count |-> d, UNIT_PER_ICON |-> u,
                   current_context |-> "2003_Flood"]
    /\ holder = <<>>
    /\ pic_loc = [at |-> "start"]
    /\ SessionStart(DataA, KorA, SessionPalette)
    /\ files = AllFiles
    /\ RaceIdle
    /\ AggIdle
    /\ KorIdle

\* 1523-1621: a run from death_count to the first render and the buttons
PicSection ==
    /\ pic_loc.at = "start"
    /\ LET s1  == PicState(session_state, pic_in.current_context)
           act == ActiveIcons(pic_in.death_count, pic_in.UNIT_PER_ICON)
           tot == Max(base_icons, act)
           cls == ActiveClass(pic_in.death_count)
           first == render(s1[PSTEP], act, tot, cls)
           locals == [at |-> "done", active_icons |-> act,
                      total_icons |-> tot, step |-> 0]
       IN  IF clicked = "pic_reset"
           THEN \* 1614-1618
                /\ session_state' = (PSTEP :> 0)
                     @@ (K1("pictogram_active") :> FALSE) @@ s1
                /\ holder' = <<first, render(0, act, tot, cls)>>
                /\ pic_loc' = [locals EXCEPT !.at = "stopped"]
           ELSE IF clicked = "pic_play"
           THEN \* 1620-1622
                /\ session_state' = (PSTEP :> 0)
                     @@ (K1("pictogram_active") :> TRUE) @@ s1
                /\ holder' = <<first>>
                /\ pic_loc' = [locals EXCEPT !.at = "loop"]
           ELSE /\ session_state' = s1
                /\ holder' = <<first>>
                /\ pic_loc' = locals
    /\ UNCHANGED <<files, df_raw, df_korea_raw, palette, pc, loc, clicked,
                   widgets, rendered, advisory, n_clicks, pic_in>>
    /\ UNCHANGED <<race_vars, agg_vars, kor_vars>>

\* a loop over range(0, active_icons)
PlayAdvance_short(pl) ==
    IF pl.step + 1 >= pl.active_icons
    THEN [pl EXCEPT !.at = "played"]
    ELSE [pl EXCEPT !.step = @ + 1]

\* 1624: for step in range(0, active_icons + 1): the loop is left after the
\* iteration for active_icons
PlayAdvance(pl) ==
    IF pl.step = pl.active_icons
    THEN [pl EXCEPT !.at = "played"]
    ELSE [pl EXCEPT !.step = @ + 1]

\* 1624-1627: one iteration of the Play loop
PlayIter ==
    /\ pic_loc.at = "loop"
    /\ session_state' = [session_state EXCEPT ![PSTEP] = pic_loc.step]
    /\ holder' = Append(holder,
                        render(pic_loc.step, pic_loc.active_icons,
                               pic_loc.total_icons,
                               ActiveClass(pic_in.death_count)))
    /\ pic_loc' = PlayAdvance(pic_loc)
    /\ UNCHANGED <<files, df_raw, df_korea_raw, palette, pc, loc, clicked,
                   widgets, rendered, advisory, n_clicks, pic_in>>
    /\ UNCHANGED <<race_vars, agg_vars, kor_vars>>

\* 1566-1569: Play or Reset is clicked after a run has ended
PicClick ==
    /\ pic_loc.at \in {"done", "played", "stopped"}
    /\ clicked' \in {"pic_play", "pic_reset"}
    /\ pic_loc' = [at |-> "start"]
    /\ holder' = <<>>
    /\ UNCHANGED <<files, df_raw, df_korea_raw, palette, session_state, pc,
                   loc, widgets, rendered, advisory, n_clicks, pic_in>>
    /\ UNCHANGED <<race_vars, agg_vars, kor_vars>>

PicNext == PicSection \/ PlayIter \/ PicClick

SpecPicto == PicInit /\ [][PicNext]_vars

\* the Play loop is a for loop of the server: once begun, and no other run
\* taking its place, it goes on
SpecPictoFair == SpecPicto /\ WF_vars(PlayIter)

(***************************************************************************)
(* SpecPictoUse: the pictogram in a session in which the user changes the  *)
(* year or type, moves the speed slider and presses Play and Reset at any  *)
(* time, a Play loop under way being abandoned by the new run.             *)
(***************************************************************************)
\* 1523-1531: the selections of the session as f"{kor_year}_{kor_type}",
\* each with the death_count that the panel gives for it
PicSelections ==
    ("2002_Flood" :> 2) @@ ("2003_Flood" :> 3) @@ ("2003_Storm" :> 1)
      @@ ("2004_Flood" :> 0)

\* 1523-1531, 1579: death_count and current_context of a selection
PicInput(c) ==
    [death_count |-> PicSelections[c], UNIT_PER_ICON |-> 1,
     current_context |-> c]

PicUseInit ==
    /\ \E c \in DOMAIN PicSelections : pic_in = PicInput(c)
    /\ holder = <<>>
    /\ pic_loc = [at |-> "start"]
    /\ SessionStart(DataA, KorA, SessionPalette)
    /\ files = AllFiles
    /\ RaceIdle
    /\ AggIdle
    /\ KorIdle

\* 1502-1520, 1557-1569: an interaction starts a new run, whatever the
\* current one is at: another year or type is selected, or the speed slider
\* is moved, or Play or Reset is pressed
PicInteract ==
    /\ \E c \in DOMAIN PicSelections,
          b \in {"none", "pic_speed", "pic_play", "pic_reset"} :
         /\ (b = "none") <=> (c # pic_in.current_context)
         /\ pic_in' = PicInput(c)
         /\ clicked' = b
    /\ pic_loc' = [at |-> "start"]
    /\ holder' = <<>>
    /\ UNCHANGED <<files, df_raw, df_korea_raw, palette, session_state, pc,
                   loc, widgets, rendered, advisory, n_clicks>>
    /\ UNCHANGED <<race_vars, agg_vars, kor_vars>>

PicUseNext == PicSection \/ PlayIter \/ PicInteract

SpecPictoUse == PicUseInit /\ [][PicUseNext]_vars
(***************************************************************************)
(* SpecAgg: the aggregations of the views, each applied to every table and *)
(* every filter within the bounds.  A table is a sequence of rows          *)
(* [year, type, region, iso, deaths, affected]; an aggregated table is a   *)
(* set of rows, one per group.                                             *)
(***************************************************************************)
\* a table has at most MaxAggRows rows
MaxAggRows == 3

ARow(y, t, r, c, d, a) ==
    [year |-> y, type |-> t, region |-> r, iso |-> c, deaths |-> d,
     affected |-> a]

\* the rows the tables are made of; a row may occur more than once
AggUniverse ==
    {ARow(1969, "Flood", "Asia", "KOR", 1, 2),
     ARow(1970, "Flood", "Asia", "JPN", 0, 1),
     ARow(1971, "Flood", "Asia", "KOR", 0, 1),
     ARow(1971, "Fog", "Asia", "JPN", 2, 0),
     ARow(1971, "Flood", "Europe", "FRA", 0, 3),
     ARow(1972, "Fog", "Europe", "FRA", 1, 0)}

AggTables == UNION {[1..n -> AggUniverse] : n \in 0..MaxAggRows}

RECURSIVE SumCol(_, _)
\* df[col].sum() of a table
SumCol(df, col) ==
    IF df = <<>> THEN 0 ELSE Head(df)[col] + SumCol(Tail(df), col)

RECURSIVE SumSet(_, _)
\* agg[col].sum() of an aggregated table
SumSet(agg, col) ==
    IF agg = {} THEN 0
    ELSE LET r == CHOOSE x \in agg : TRUE
         IN  r[col] + SumSet(agg \ {r}, col)

\* the rows of a year, whatever their type
TypeGroup_year(dff, y, t) ==
    SelectRows(dff, {i \in DOMAIN dff : dff[i].year = y})

\* groupby(["Start Year", "Disaster Type"]): the rows of one group
TypeGroup(dff, y, t) ==
    SelectRows(dff, {i \in DOMAIN dff : dff[i].year = y /\ dff[i].type = t})

\* no filter on the type
IsIn_all(df, selected) == df

\* df[df["Disaster Type"].isin(selected)]
IsIn(df, selected) == SelectRows(df, {i \in DOMAIN df : df[i].type \in selected})

\* 404-421: build_insight1_agg; occ and deaths have the same groups, so
\* their outer merge has one row per group and nothing to fill
build_insight1_agg(df, selected_types) ==
    LET dff == IsIn(df, selected_types)
    IN  {[year        |-> dff[i].year,
          type        |-> dff[i].type,
          Occurrences |-> Len(TypeGroup(dff, dff[i].year, dff[i].type)),
          Deaths      |-> SumCol(TypeGroup(dff, dff[i].year, dff[i].type),
                                 "deaths")] : i \in DOMAIN dff}

\* 423-427: df_ins1 as it is drawn
df_ins1(df, selected_types) ==
    {r \in build_insight1_agg(df, selected_types) :
       r.year <= MaxYear(df) - 1 /\ r.year # 1970}

\* 434-440: df_total of the TOTAL mode
df_total(ins1) ==
    {[year        |-> y,
      Occurrences |-> SumSet({r \in ins1 : r.year = y}, "Occurrences"),
      Deaths      |-> SumSet({r \in ins1 : r.year = y}, "Deaths")] :
       y \in {r.year : r \in ins1}}

\* 583-588: df_occ of the area chart before the year slider
AreaOcc(df, region, selected_types) ==
    LET dff == IsIn(RegionRows(df, region), selected_types)
    IN  {[year        |-> dff[i].year,
          type        |-> dff[i].type,
          Occurrences |-> Len(TypeGroup(dff, dff[i].year, dff[i].type))] :
           i \in DOMAIN dff}

\* 606: the rows of df_occ within year_range
YearRange(df_occ, a, b) == {r \in df_occ : r.year >= a /\ r.year <= b}

\* 227-266: region_year of the globe
region_year(df, selected_types, metric_choice) ==
    LET sel      == IsIn(df, selected_types)
        \* 250-251; nothing passes the comparison with the maximum of an
        \* empty table
        df_globe == SelectRows(sel, {i \in DOMAIN sel :
                                       sel[i].year <= MaxYear(sel) - 1})
        grp(y, r) == SelectRows(df_globe, {i \in DOMAIN df_globe :
                        df_globe[i].year = y /\ df_globe[i].region = r})
    IN  {[year   |-> df_globe[i].year,
          region |-> df_globe[i].region,
          Value  |-> LET g == grp(df_globe[i].year, df_globe[i].region)
                     IN  IF metric_choice = "Total Occurrences" THEN Len(g)
                         ELSE IF metric_choice = "Total Deaths"
                         THEN SumCol(g, "deaths")
                         ELSE SumCol(g, "affected")] : i \in DOMAIN df_globe}

\* an inner merge in place of the left merge
map_data_all_inner(df, selected_types, metric_choice) ==
    {[region |-> df[i].region, iso |-> df[i].iso, matched |-> TRUE,
      year |-> v.year, Value |-> v.Value] :
       i \in DOMAIN df,
       v \in region_year(df, selected_types, metric_choice)}

\* 268-274: map_data_all: the left merge of the (Region, ISO, Country) rows
\* of df_raw with region_year; a row without a match has no year and its
\* Value is filled with 0
map_data_all(df, selected_types, metric_choice) ==
    LET ry == region_year(df, selected_types, metric_choice)
        df_iso_mapping == {[region |-> df[i].region, iso |-> df[i].iso] :
                             i \in DOMAIN df}
    IN  UNION {IF \E v \in ry : v.region = m.region
               THEN {[region |-> m.region, iso |-> m.iso, matched |-> TRUE,
                      year |-> v.year, Value |-> v.Value] :
                       v \in {w \in ry : w.region = m.region}}
               ELSE {[region |-> m.region, iso |-> m.iso, matched |-> FALSE,
                      year |-> 0, Value |-> 0]} : m \in df_iso_mapping}

Regions == {"Global", "Asia", "Europe"}

\* the non-empty sets of types the checkboxes of a table allow
Selections(df) == SUBSET TypesOf(df) \ {{}}

\* the calls a table allows: the types selected are types of the table
\* (209-218, 394-397, 570-573), the story's end year is on its slider
\* (899-915), the area chart's year range on its own (603-605)
AggInputs(df) ==
    LET call(op, sel, region, a, b, col) ==
          [df |-> df, op |-> op, selected |-> sel, region |-> region,
           a |-> a, b |-> b, col |-> col]
    IN  {call("insight", sel, "Global", 0, 0, "") : sel \in Selections(df)}
        \cup {call("story", {}, region, START_Y, year_end, y_col) :
                region \in Regions,
                year_end \in START_Y..(MaxYear(df) - 1),
                y_col \in {"Occurrences", "Deaths"}}
        \cup UNION {UNION {LET years == {r.year :
                                             r \in AreaOcc(df, region, sel)}
                           IN  UNION {{call("area", sel, region, a, b,
                                            "Occurrences") :
                                         b \in {y \in years : y >= a /\
                                                 \E z \in years : y < z}} :
                                        a \in years} :
                             sel \in Selections(RegionRows(df, region))} :
                      region \in Regions}
        \cup {call("globe", sel, "Global", 0, 0, metric) :
                sel \in Selections(df),
                metric \in {"Total Occurrences", "Total Deaths",
                            "Total Affected"}}

AggInit ==
    /\ \E df \in AggTables \ {<<>>} : agg_in \in AggInputs(df)
    /\ agg_out = NoneVal
    /\ SessionStart(DataA, KorA, SessionPalette)
    /\ files = AllFiles
    /\ RaceIdle
    /\ KorIdle
    /\ PicIdle

\* an aggregation is called and returns
AggCall(op, result) ==
    /\ agg_out = NoneVal
    /\ agg_in.op = op
    /\ agg_out' = result
    /\ UNCHANGED <<agg_in, sess_vars, race_vars, kor_vars, pic_vars>>

\* 404-440: insight 1: the aggregation, the rows drawn, the TOTAL mode
AggInsight ==
    AggCall("insight",
            [out   |-> build_insight1_agg(agg_in.df, agg_in.selected),
             shown |-> df_ins1(agg_in.df, agg_in.selected),
             total |-> df_total(df_ins1(agg_in.df, agg_in.selected))])

\* 826-862: story_agg_no_window, on the table and on the table it has
\* filtered already
AggStory ==
    AggCall("story",
            [out   |-> StoryYearly(agg_in.df, agg_in.region, agg_in.b,
                                   agg_in.col),
             again |-> StoryYearly(StoryRows(agg_in.df, agg_in.region,
                                             agg_in.b),
                                   agg_in.region, agg_in.b, agg_in.col)])

\* 583-606: the area chart's table, its year filter applied once and twice
AggArea ==
    LET occ  == AreaOcc(agg_in.df, agg_in.region, agg_in.selected)
        once == YearRange(occ, agg_in.a, agg_in.b)
    IN  AggCall("area",
                [out |-> once, again |-> YearRange(once, agg_in.a, agg_in.b)])

\* 227-274: the globe's map table
AggGlobe ==
    AggCall("globe",
            [out |-> map_data_all(agg_in.df, agg_in.selected, agg_in.col)])

AggNext == AggInsight \/ AggStory \/ AggArea \/ AggGlobe

SpecAgg == AggInit /\ [][AggNext]_vars


(***************************************************************************)
(* The Korea table: load_data (43-50) and normalize_korea_df (1377-1420).  *)
(*                                                                         *)
(* A raw table is [cols, rows]: the set of its column names and its rows,  *)
(* each a function from the column names to cells.  A cell is what         *)
(* read_csv may give: a number, a missing value, a text, or a text made of *)
(* the digits of a number.  The tables have at most one of the two names   *)
(* of a column, whole years and whole death counts.                        *)
(***************************************************************************)
\* largest number of rows of a raw Korea table
MaxKorRows == 3

\* kind is "num", "nan", "text" or "digits"
Cell(kind, n, s) == [kind |-> kind, n |-> n, s |-> s]

\* the rows raw tables are made of, as (year, type, deaths)
KorUniverse ==
    {<<Cell("num", 1998, ""), Cell("text", 0, "Flood"), Cell("num", 1, "")>>,
     <<Cell("num", 1998, ""), Cell("text", 0, "Flood"), Cell("digits", 2, "")>>,
     <<Cell("num", 1998, ""), Cell("text", 0, "Fog"), Cell("nan", 0, "")>>,
     <<Cell("num", 1999, ""), Cell("text", 0, "Flood"), Cell("text", 0, "x")>>,
     <<Cell("nan", 0, ""), Cell("text", 0, "Flood"), Cell("num", 1, "")>>,
     <<Cell("digits", 1999, ""), Cell("text", 0, "Fog"), Cell("num", 2, "")>>,
     <<Cell("text", 0, "x"), Cell("nan", 0, ""), Cell("num", 1, "")>>,
     <<Cell("num", 1999, ""), Cell("nan", 0, ""), Cell("num", 0, "")>>}

\* the sets of column names: each required column under its canonical name,
\* under its alias, or absent
KorColumnSets ==
    {y \cup t \cup d : y \in {{"Year"}, {"Start Year"}, {}},
                       t \in {{"Disaster Type"}, {}},
                       d \in {{"Total_Deaths"}, {"Total Deaths"}, {}}}

\* 31: pd.read_csv("data/df_korea.csv")
KorTables ==
    {[cols |-> cs,
      rows |-> [i \in DOMAIN rs |->
                  [c \in cs |-> IF c \in {"Year", "Start Year"} THEN rs[i][1]
                                ELSE IF c = "Disaster Type" THEN rs[i][2]
                                ELSE rs[i][3]]]] :
       cs \in KorColumnSets,
       rs \in UNION {[1..n -> KorUniverse] : n \in 0..MaxKorRows}}

\* DataFrame.rename(columns={from: to})
Rename(tab, from, to) ==
    IF from \notin tab.cols \/ from = to THEN tab
    ELSE LET cs == (tab.cols \ {from}) \cup {to}
         IN  [cols |-> cs,
              rows |-> [i \in DOMAIN tab.rows |->
                          [c \in cs |-> IF c = to THEN tab.rows[i][from]
                                        ELSE tab.rows[i][c]]]]

\* 45-48: the renames of load_data
KoreaRenames(tab) ==
    Rename(Rename(tab, "Start Year", "Year"), "Total Deaths", "Total_Deaths")

\* 50: df_korea['Total_Deaths'].fillna(0); the caller has checked the column
FillDeaths(tab) ==
    [cols |-> tab.cols,
     rows |-> [i \in DOMAIN tab.rows |->
                 [c \in tab.cols |->
                    IF c = "Total_Deaths" /\ tab.rows[i][c].kind = "nan"
                    THEN Cell("num", 0, "") ELSE tab.rows[i][c]]]]

\* pd.to_numeric(errors="coerce") of one cell
ToNumeric(c) ==
    IF c.kind \in {"num", "digits"} THEN Cell("num", c.n, "")
    ELSE Cell("nan", 0, "")

\* astype(str) of one cell: a missing value becomes the text "nan"
AsStr(c) ==
    IF c.kind = "text" THEN c.s
    ELSE IF c.kind = "nan" THEN "nan"
    ELSE ToString(c.n)

\* 1385-1404: the field whose column is missing, in the order of the checks
MissingField(tab) ==
    IF {"Year", "Start Year"} \cap tab.cols = {} THEN "Year"
    ELSE IF {"Total_Deaths", "Total Deaths"} \cap tab.cols = {} THEN "Deaths"
    ELSE IF "Disaster Type" \notin tab.cols THEN "Disaster Type"
    ELSE "none"

\* 1385-1413: the rows with a numeric year, as (Year, Disaster Type,
\* Total_Deaths), a missing or non-numeric death count being 0
KorClean(tab) ==
    LET year_col == IF "Year" \in tab.cols THEN "Year" ELSE "Start Year"
        deaths_col == IF "Total_Deaths" \in tab.cols THEN "Total_Deaths"
                      ELSE "Total Deaths"
        s == SelectRows(tab.rows,
                        {i \in DOMAIN tab.rows :
                           ToNumeric(tab.rows[i][year_col]).kind = "num"})
    IN  [i \in DOMAIN s |->
           KRow(ToNumeric(s[i][year_col]).n, AsStr(s[i]["Disaster Type"]),
                ToNumeric(s[i][deaths_col]).n)]

\* the order groupby gives its keys: by year, then by type as text
KorBefore(a, b) ==
    LET order == TypeOrder \o <<"nan">>
        rank(t) == CHOOSE i \in DOMAIN order : order[i] = t
    IN  a.year < b.year \/ (a.year = b.year /\ rank(a.type) <= rank(b.type))

RECURSIVE KorSorted(_)
\* a set of rows with distinct (year, type) as a table in key order
KorSorted(S) ==
    IF S = {} THEN <<>>
    ELSE LET m == CHOOSE x \in S : \A z \in S : KorBefore(x, z)
         IN  <<m>> \o KorSorted(S \ {m})

\* the rows as they are, without grouping
KorGroup_none(rows) == rows

\* each group reduced to the number of its rows
KorGroup_count(rows) ==
    KorSorted({KRow(rows[i].year, rows[i].type,
                    Cardinality({j \in DOMAIN rows :
                                   rows[j].year = rows[i].year
                                     /\ rows[j].type = rows[i].type})) :
                 i \in DOMAIN rows})

\* 1416: groupby(["Year", "Disaster Type"], as_index=False)["Total_Deaths"].sum()
KorGroup(rows) ==
    KorSorted({KRow(rows[i].year, rows[i].type,
                    SumCol(SelectRows(rows,
                                      {j \in DOMAIN rows :
                                         rows[j].year = rows[i].year
                                           /\ rows[j].type = rows[i].type}),
                           "deaths")) :
                 i \in DOMAIN rows})

\* 1377-1420: normalize_korea_df of a table that has the three columns; the
\* result has the columns Year, Disaster Type and Total_Deaths
normalize_korea_df(tab) ==
    LET g == KorGroup(KorClean(tab))
        cs == {"Year", "Disaster Type", "Total_Deaths"}
    IN  [cols |-> cs,
         rows |-> [i \in DOMAIN g |->
                     [c \in cs |-> IF c = "Year" THEN Cell("num", g[i].year, "")
                                   ELSE IF c = "Disaster Type"
                                        THEN Cell("text", 0, g[i].type)
                                   ELSE Cell("num", g[i].deaths, "")]]]

\* what the Korea path has produced so far
KorStart ==
    [loaded |-> NoneVal, out |-> NoneVal, again |-> NoneVal, twin |-> NoneVal,
     err |-> NoneVal]

KorInit ==
    /\ kor_in \in KorTables
    /\ kor_tab = KorStart
    /\ kor_pc = "read"
    /\ fig_top_anim = NoneVal
    /\ RaceIdle
    /\ SessionStart(DataA, KorA, SessionPalette)
    /\ files = AllFiles
    /\ AggIdle
    /\ PicIdle

\* 43-58: the Korea part of load_data; a table without a deaths column makes
\* line 50 raise KeyError, which the caller (54-58) does not catch
KoreaLoad ==
    /\ kor_pc = "read"
    /\ IF "Total_Deaths" \in KoreaRenames(kor_in).cols
       THEN /\ kor_pc' = "loaded"
            /\ kor_tab' = [kor_tab EXCEPT
                             !.loaded = FillDeaths(KoreaRenames(kor_in))]
       ELSE /\ kor_pc' = "raised"
            /\ kor_tab' = kor_tab
    /\ UNCHANGED <<kor_in, sess_vars, race_vars, agg_vars, pic_vars>>

\* 1457-1462: normalize_korea_df(df_korea_raw); a ValueError is caught and
\* shown by st.error with its message, and the run stops
KoreaNormalize ==
    /\ kor_pc = "loaded"
    /\ IF MissingField(kor_tab.loaded) # "none"
       THEN /\ kor_pc' = "failed"
            /\ kor_tab' = [kor_tab EXCEPT
                             !.err = [field |-> MissingField(kor_tab.loaded),
                                      columns |-> kor_tab.loaded.cols]]
       ELSE /\ kor_pc' = "normalized"
            /\ kor_tab' = [kor_tab EXCEPT
                             !.out = normalize_korea_df(kor_tab.loaded)]
    /\ UNCHANGED <<kor_in, sess_vars, race_vars, agg_vars, pic_vars>>

\* normalize_korea_df applied to its own result, and to the table as it was
\* read, before the renames of load_data
KoreaAgain ==
    /\ kor_pc = "normalized"
    /\ kor_pc' = "again"
    /\ kor_tab' = [kor_tab EXCEPT
                     !.again = normalize_korea_df(kor_tab.out),
                     !.twin = normalize_korea_df(kor_in)]
    /\ UNCHANGED <<kor_in, sess_vars, race_vars, agg_vars, pic_vars>>

KorNext == KoreaLoad \/ KoreaNormalize \/ KoreaAgain

SpecKorea == KorInit /\ [][KorNext]_vars
(***************************************************************************)
(* Claims about the bar race (SpecRace).                                   *)
(***************************************************************************)
Plotted == race_pc = "plotted"

\* the rows of the aggregated input whose year is y and whose value is
\* positive
PositiveOfYear(y) == {r \in race_in.df_yearly : r.y = y /\ r.v > 0}

\* the frames of the returned figure, none when no figure was returned
FramesOf(fig) == IF fig = NoneVal THEN <<>> ELSE fig.frames

FrameNames(fig) == [i \in 1..Len(FramesOf(fig)) |-> FramesOf(fig)[i].name]

StepsOf(fig) == IF fig = NoneVal THEN <<>> ELSE fig.steps

\* C5: in every frame, two categories of equal value appear in ascending
\* lexicographic order of their label.
C5_TiesLexicographic ==
    Plotted =>
      \A n \in 1..Len(fig_top_anim.frames) :
        LET f == fig_top_anim.frames[n]
        IN  \A i, j \in 1..Len(f.bar_y) :
              (i < j /\ f.text[i] = f.text[j])
                => Rank(f.bar_y[i]) < Rank(f.bar_y[j])

\* the snapshot of one frame is the top-N of its year: the right length,
\* distinct categories of that year with their values, non-increasing, and
\* nothing left out is larger than anything included
IsTopN(f, topN) ==
    LET cats == PositiveOfYear(f.name)
        n    == Len(f.bar_y)
    IN  /\ n = Min(topN, Cardinality(cats))
        /\ Len(f.text) = n
        /\ \A i \in 1..n :
             [y |-> f.name, t |-> f.bar_y[i], v |-> f.text[i]] \in cats
        /\ \A i, j \in 1..n : i # j => f.bar_y[i] # f.bar_y[j]
        /\ \A i \in 1..(n - 1) : f.text[i] >= f.text[i + 1]
        /\ \A r \in cats :
             r.t \notin Range(f.bar_y) => \A i \in 1..n : r.v <= f.text[i]

\* the rows of the worked example: (1998, Flood, 50), (1998, Storm, 200),
\* (1999, Flood, 10)
ExampleRows ==
    {[y |-> 1998, t |-> "Flood", v |-> 50],
     [y |-> 1998, t |-> "Storm", v |-> 200],
     [y |-> 1999, t |-> "Flood", v |-> 10]}

\* with topN = 1 its snapshots are [Storm:200] for 1998, [Flood:10] for 1999
ExampleSnapshots ==
    \A fig \in make_bar_race_with_trail(ExampleRows, "Deaths", 1999, 1, 1) :
      /\ fig # NoneVal
      /\ FrameNames(fig) = <<1998, 1999>>
      /\ fig.frames[1].bar_y = <<"Storm">> /\ fig.frames[1].text = <<200>>
      /\ fig.frames[2].bar_y = <<"Flood">> /\ fig.frames[2].text = <<10>>

\* C6: every frame holds exactly min(topN, number of positive categories
\* of its year) categories, in non-increasing order of value, and every
\* category left out has a value no larger than every category included.
C6_TopN ==
    /\ Plotted =>
         \A n \in 1..Len(fig_top_anim.frames) :
           IsTopN(fig_top_anim.frames[n], race_in.topN)
    /\ ExampleSnapshots

\* a frame whose year has more positive categories than topN, two of them
\* tied
C6_Witness ==
    /\ Plotted
    /\ \E n \in 1..Len(fig_top_anim.frames) :
         LET cats == PositiveOfYear(fig_top_anim.frames[n].name)
         IN  /\ Cardinality(cats) > race_in.topN
             /\ \E r1, r2 \in cats : r1 # r2 /\ r1.v = r2.v

\* C7: one cap, computed from all values of the filtered series, is used in
\* every frame: a bar's length is min(raw value, x_cap), its label and hover
\* value are the raw value, and the x-axis range is the same in all frames.
C7_OneCap ==
    Plotted =>
      LET fig == fig_top_anim
          d   == RaceFilter(race_in.df_yearly, race_in.year_end)
      IN  /\ fig.x_cap = XCap(d, race_in.y_col)
          /\ \A n \in 1..Len(fig.frames) :
               LET f == fig.frames[n]
               IN  /\ \A i \in 1..Len(f.bar_y) :
                        /\ [y |-> f.name, t |-> f.bar_y[i], v |-> f.text[i]]
                             \in d
                        /\ f.customdata[i] = f.text[i]
                        /\ f.bar_x[i] = Min(100 * f.text[i], fig.x_cap)
                        /\ 100 * f.text[i] <= fig.x_cap
                             => f.bar_x[i] = 100 * f.text[i]
                        /\ 100 * f.text[i] > fig.x_cap
                             => f.bar_x[i] = fig.x_cap
                   /\ FrameXRange(fig, f) = Some(<<0, XMax(fig.x_cap)>>)
                   /\ FrameXRange(fig, f) = FrameXRange(fig, fig.frames[1])

\* two frames, one with a bar plotted at the cap below its raw value and
\* one with a bar below the cap
C7_Witness ==
    /\ Plotted
    /\ Len(fig_top_anim.frames) >= 2
    /\ \E n, m \in 1..Len(fig_top_anim.frames) :
         /\ n # m
         /\ \E i \in 1..Len(fig_top_anim.frames[n].bar_x) :
              fig_top_anim.frames[n].bar_x[i]
                < 100 * fig_top_anim.frames[n].text[i]
         /\ \E i \in 1..Len(fig_top_anim.frames[m].bar_x) :
              fig_top_anim.frames[m].bar_x[i] < fig_top_anim.x_cap

\* C8: a series whose values are all zero or negative (or that is empty)
\* still gets its chart, with the cap replaced by 1, and nothing is halted.
C8_DegenerateRecovered ==
    (race_pc # "start" /\ \A r \in race_in.df_yearly : r.v <= 0)
      => (race_pc = "plotted" /\ fig_top_anim # NoneVal
          /\ fig_top_anim.x_cap = 100)

\* C9 as stated: the trail point of (y-k, t) is present with t's value if
\* the aggregated series has an entry for (y-k, t), and is absent if not.
C9_TrailAbsentIfMissing ==
    Plotted =>
      \A n \in 1..Len(fig_top_anim.frames) :
        LET f == fig_top_anim.frames[n]
        IN  \A k \in 1..race_in.trail_years, i \in 1..Len(f.bar_y) :
              LET e == {r \in race_in.df_yearly :
                          r.y = f.name - k /\ r.t = f.bar_y[i]}
              IN  IF e = {} THEN f.trails[k][i] = NoneVal
                  ELSE \E r \in e : f.trails[k][i] = Some(r.v)

\* the trail point the code draws for type t in year py
TrailExpected(py, t) ==
    IF PositiveOfYear(py) = {} THEN NoneVal
    ELSE IF \E r \in PositiveOfYear(py) : r.t = t
         THEN Some((CHOOSE r \in PositiveOfYear(py) : r.t = t).v)
         ELSE Some(0)

\* C9 amended: the trail point of (y-k, t) is present exactly when some
\* category has a positive value in year y-k; it carries t's positive value
\* of that year, or 0 when t has none; it is absent only when year y-k has
\* no positive value at all.  The same holds for the initial traces.
C9_TrailZeroFilled ==
    Plotted =>
      /\ \A n \in 1..Len(fig_top_anim.frames) :
           LET f == fig_top_anim.frames[n]
           IN  /\ DOMAIN f.trails = 1..race_in.trail_years
               /\ \A k \in 1..race_in.trail_years :
                    /\ Len(f.trails[k]) = Len(f.bar_y)
                    /\ \A i \in 1..Len(f.bar_y) :
                         f.trails[k][i] = TrailExpected(f.name - k, f.bar_y[i])
      /\ \A k \in 1..race_in.trail_years, i \in 1..Len(fig_top_anim.bar_y) :
           fig_top_anim.trails[k][i]
             = TrailExpected(fig_top_anim.frames[1].name - k,
                             fig_top_anim.bar_y[i])

\* a frame with a trail point drawn at 0 for a (year, type) the aggregated
\* series has no entry for, one with a positive point and one with None
C9_Witness ==
    /\ Plotted
    /\ \E n \in 1..Len(fig_top_anim.frames) :
         LET f == fig_top_anim.frames[n]
         IN  /\ \E k \in 1..race_in.trail_years, i \in 1..Len(f.bar_y) :
                  /\ f.trails[k][i] = Some(0)
                  /\ ~ \E r \in race_in.df_yearly :
                         r.y = f.name - k /\ r.t = f.bar_y[i]
             /\ \E k \in 1..race_in.trail_years, i \in 1..Len(f.bar_y) :
                  f.trails[k][i] = NoneVal
    /\ \E n \in 1..Len(fig_top_anim.frames) :
         LET f == fig_top_anim.frames[n]
         IN  \E k \in 1..race_in.trail_years, i \in 1..Len(f.bar_y) :
               f.trails[k][i] # NoneVal /\ f.trails[k][i] # Some(0)

Sections == <<"globe", "ins1", "area", "deaths", "story", "korea">>

SectionNo(s) == CHOOSE i \in 1..Len(Sections) : Sections[i] = s

\* the sections below a section
LaterSections(s) ==
    {Sections[i] : i \in (SectionNo(s) + 1)..Len(Sections)}

\* the run came to a section: it drew it or showed its advisory
Executed(s) == s \in DOMAIN rendered \/ s \in advisory

\* the run showed the checkboxes of a view and none of them is checked
EmptySelection(v) ==
    CASE v = "globe" ->
           /\ "globe_type" \in widgets
           /\ Checked(session_state, "globe_type", top_5_disasters) = <<>>
      [] v = "ins1" ->
           /\ "ins1_type" \in widgets
           /\ Checked(session_state, "ins1_type", top5_global) = <<>>
      [] v = "area" ->
           /\ "chk" \in widgets
           /\ CheckedIn(session_state, "chk", "Global",
                        TopByCount(df_raw, TOP_N)) = <<>>
      [] v = "deaths" ->
           /\ "chk_deaths" \in widgets
           /\ CheckedIn(session_state, "chk_deaths", "Global",
                        TopByDeaths(df_raw, TOP_N)) = <<>>

\* C1: when a run has ended and a view with type checkboxes has none of them
\* checked, that view shows its advisory and draws no chart, and every
\* section below it on the page was still executed by the run.
C1_EmptySelectionSkipsOnlyItsView ==
    Ended =>
      \A v \in {"globe", "ins1", "area", "deaths"} :
        EmptySelection(v) =>
          /\ v \in advisory
          /\ v \notin DOMAIN rendered
          /\ \A s \in LaterSections(v) : Executed(s)

\* C2: once DISASTER_COLOR_MAP is in session_state, no step of the session,
\* neither a section of a later run nor a click or its callback, removes it
\* or changes any of its entries.
C2_ColorMapKept ==
    [][Has(session_state, CMAP) =>
         /\ Has(session_state', CMAP)
         /\ session_state'[CMAP] = session_state[CMAP]]_vars

\* a later run has come to its end after Reset Globe and story clicks, the
\* map being there
C2_Witness ==
    /\ pc = "done"
    /\ Has(session_state, CMAP)
    /\ DOMAIN session_state[CMAP] # {}
    /\ session_state[K1("globe_render_key")] >= 1
    /\ session_state[STEP] >= 1

\* the types that have no manual color
PaletteTypes(cmap) == DOMAIN cmap \ DOMAIN manual_colors

\* C3: in the stored map every type of the data has an entry; a type with a
\* manual color has exactly that color; every other type has a palette
\* color that is no manual color; and no two types share a color.
C3_OverridesAndDistinct ==
    Has(session_state, CMAP) =>
      LET cmap == session_state[CMAP]
      IN  /\ DOMAIN cmap = TypesOf(df_raw)
          /\ \A t \in DOMAIN cmap \cap DOMAIN manual_colors :
               cmap[t] = manual_colors[t]
          /\ \A t \in PaletteTypes(cmap) :
               /\ cmap[t] \in Range(palette)
               /\ cmap[t] \notin ManualColorSet
          /\ \A t, u \in DOMAIN cmap : t # u => cmap[t] # cmap[u]

\* a stored map with a manual color and two palette colors, built with a
\* palette whose first color is a manual one and had to be passed over
C3_Witness ==
    /\ Has(session_state, CMAP)
    /\ DOMAIN session_state[CMAP] \cap DOMAIN manual_colors # {}
    /\ Cardinality(PaletteTypes(session_state[CMAP])) >= 2
    /\ palette[1] \in ManualColorSet

\* C4: when the Korea charts are drawn, every type they draw has an entry
\* in the stored map (its manual color if it has one) and is drawn in it.
C4_KoreaTypeInMap ==
    "korea" \in DOMAIN rendered =>
      \A t \in DOMAIN rendered["korea"] :
        /\ t \in DOMAIN session_state[CMAP]
        /\ rendered["korea"][t] = session_state[CMAP][t]
        /\ t \in DOMAIN manual_colors =>
             session_state[CMAP][t] = manual_colors[t]

\* C19: when one of the files the script opens is missing, the run that has
\* gone past the load has stopped with a reported setup error and has
\* rendered no section of the dashboard.
C19_MissingFileReported ==
    (files # AllFiles /\ pc # "start") =>
      /\ pc = "stopped"
      /\ "load" \in advisory
      /\ rendered = <<>>

\* the palette colors that are no manual color
FreeColors == Range(palette) \ ManualColorSet

\* the types of the data that have no manual color
AutoTypes == TypesOf(df_raw) \ DOMAIN manual_colors

\* the while loop of 125 is at a type and every palette color is used
ColorStuck ==
    /\ InColorLoop
    /\ all_types(df_raw)[loc.i] \notin DOMAIN manual_colors
    /\ Range(palette) \subseteq loc.used_colors

\* C26: the construction of the color map ends, the map being stored, if
\* and only if the types without a manual color are at most as many as the
\* distinct palette colors that are no manual color; with more such types
\* the while loop comes to a type for which every palette color is used,
\* and from then on it turns forever.  (The construction ends or gets
\* there; it ends only with enough colors and gets there only without.)
C26_ColorLoopEndsIffEnoughColors ==
    /\ [](Has(session_state, CMAP)
            => Cardinality(AutoTypes) <= Cardinality(FreeColors))
    /\ [](ColorStuck => Cardinality(AutoTypes) > Cardinality(FreeColors))
    /\ <>(Has(session_state, CMAP) \/ ColorStuck)
    /\ [][ColorStuck => ColorStuck']_vars

\* the loop turns without end over a palette of three entries, one type
\* having got the only free color
C26_Witness ==
    /\ ColorStuck
    /\ Len(palette) = 3
    /\ Cardinality(FreeColors) = 1
    /\ Cardinality(AutoTypes) = 2
    /\ loc.palette_index = 0
    /\ DOMAIN loc.cmap \ DOMAIN manual_colors # {}

(***************************************************************************)
(* Claims about the pictogram (SpecPicto, SpecPictoFair).                  *)
(***************************************************************************)

\* C11: active_icons is the ceiling of death_count / UNIT_PER_ICON: the
\* least number of icons that hold the count, 0 for a count of 0, not less
\* than for the count before, one more than the whole quotient when there is
\* a remainder; with 10 per icon 95 gives 10, 100 gives 10 and 101 gives 11.
C11_IconsAreCeiling ==
    pic_loc.at \notin {"idle", "start"} =>
      LET a == pic_loc.active_icons
          d == pic_in.death_count
          u == pic_in.UNIT_PER_ICON
      IN  /\ a * u >= d
          /\ d > 0 => (a - 1) * u < d
          /\ (a = 0) <=> (d = 0)
          /\ d > 0 => ActiveIcons(d - 1, u) <= a
          /\ d % u # 0 => a = (d \div u) + 1
          /\ d % u = 0 => a = d \div u
          /\ (u = 10 /\ d = 95) => a = 10
          /\ (u = 10 /\ d = 100) => a = 10
          /\ (u = 10 /\ d = 101) => a = 11

\* the pictogram of 101 deaths at 10 per icon has been played to its end
C11_Witness ==
    /\ pic_loc.at = "played"
    /\ pic_in.death_count = 101
    /\ pic_in.UNIT_PER_ICON = 10
    /\ holder[Len(holder)].highlighted = 11

\* what the Play loop has rendered: all but the first render of the run
LoopRenders == SubSeq(holder, 2, Len(holder))

\* C20: a Play loop that nothing supersedes comes to its end; its k-th
\* iteration stores and renders step k-1, so that the steps 0, 1, ...,
\* active_icons are rendered in that order, each once, pictogram_step grows
\* by 1 from one iteration to the next and is active_icons at the end.
C20_PlayLoopRunsToEnd ==
    /\ [](pic_loc.at \in {"loop", "played"} =>
            /\ \A k \in 1..Len(LoopRenders) :
                 LoopRenders[k].highlighted = k - 1
            /\ pic_loc.at = "loop" =>
                 /\ Len(LoopRenders) = pic_loc.step
                 /\ session_state[PSTEP] = Max(0, pic_loc.step - 1)
            /\ pic_loc.at = "played" =>
                 /\ Len(LoopRenders) = pic_loc.active_icons + 1
                 /\ session_state[PSTEP] = pic_loc.active_icons)
    /\ [][(pic_loc.at = "loop" /\ pic_loc'.at \in {"loop", "played"}) =>
            /\ session_state'[PSTEP] = pic_loc.step
            /\ pic_loc.step > 0 =>
                 session_state'[PSTEP] = session_state[PSTEP] + 1]_vars
    /\ [](pic_loc.at = "loop" => <>(pic_loc.at = "played"))

\* a Play loop of several iterations has come to its end
C20_Witness ==
    /\ pic_loc.at = "played"
    /\ pic_loc.active_icons >= 3
    /\ session_state[PSTEP] = pic_loc.active_icons
    /\ Len(holder) = pic_loc.active_icons + 2

\* C22: whenever the pictogram has been rendered in a run, the stored
\* context is that of the selected year and type, the stored pictogram_step
\* is in 0..active_icons of that selection, and every render of the run
\* highlights at most active_icons icons of at least as many; the run that
\* finds another context than the stored one stores step 0 and highlights
\* no icon in its first render.
C22_StepWithinActiveIcons ==
    /\ [](pic_loc.at \notin {"idle", "start"} =>
            LET act == ActiveIcons(pic_in.death_count, pic_in.UNIT_PER_ICON)
            IN  /\ pic_loc.active_icons = act
                /\ session_state[K1("pictogram_context")]
                     = pic_in.current_context
                /\ session_state[PSTEP] \in 0..act
                /\ holder # <<>>
                /\ \A k \in DOMAIN holder :
                     /\ holder[k].highlighted <= act
                     /\ act <= holder[k].icons
                     /\ holder[k].icons = pic_loc.total_icons)
    /\ [][(/\ pic_loc.at = "start"
           /\ pic_loc'.at # "start"
           /\ Has(session_state, K1("pictogram_context"))
           /\ session_state[K1("pictogram_context")] # pic_in.current_context)
            => /\ session_state'[PSTEP] = 0
               /\ holder'[1].highlighted = 0]_vars

\* a Play loop of a selection with 3 icons was abandoned at step 2 and a
\* selection with 1 icon was made: its run is about to begin, the stored
\* step being larger than its active_icons
C22_Witness ==
    /\ pic_loc.at = "start"
    /\ pic_in.current_context = "2003_Storm"
    /\ Has(session_state, PSTEP)
    /\ session_state[K1("pictogram_context")] = "2003_Flood"
    /\ session_state[PSTEP] = 2
    /\ session_state[K1("pictogram_active")]
    /\ clicked = "none"

(***************************************************************************)
(* Claims about the aggregations (SpecAgg).                                *)
(***************************************************************************)

AggDone(op) == agg_out # NoneVal /\ agg_in.op = op

\* the rows of the table that pass the filters of the call: insight 1 has no
\* year filter, the story no type filter
KeptRows ==
    {i \in DOMAIN agg_in.df :
       /\ agg_in.op = "insight"
            \/ (agg_in.df[i].year >= agg_in.a /\ agg_in.df[i].year <= agg_in.b)
       /\ agg_in.op = "story" \/ agg_in.df[i].type \in agg_in.selected
       /\ agg_in.region = "Global" \/ agg_in.df[i].region = agg_in.region}

\* the kept rows of a (year, type) pair
PairRows(y, t) ==
    {i \in KeptRows : agg_in.df[i].year = y /\ agg_in.df[i].type = t}

RECURSIVE IdxSum(_, _, _)
\* the sum of a column over the rows at the indices idx
IdxSum(df, idx, col) ==
    IF idx = {} THEN 0
    ELSE LET i == CHOOSE x \in idx : TRUE
         IN  df[i][col] + IdxSum(df, idx \ {i}, col)

KeptPairs == {<<agg_in.df[i].year, agg_in.df[i].type>> : i \in KeptRows}

\* C12: the aggregated table has one entry for exactly each (year, type)
\* pair of the rows that pass the filters of the call (year range, selected
\* types, region); its value is the number of those rows of the pair or the
\* sum of their deaths, and a pair whose deaths are all 0 has an entry of 0.
C12_OneEntryPerKeptPair ==
    /\ AggDone("insight") =>
         agg_out.out =
           {[year |-> k[1], type |-> k[2],
             Occurrences |-> Cardinality(PairRows(k[1], k[2])),
             Deaths |-> IdxSum(agg_in.df, PairRows(k[1], k[2]), "deaths")] :
              k \in KeptPairs}
    /\ AggDone("story") =>
         agg_out.out =
           {[y |-> k[1], t |-> k[2],
             v |-> IF agg_in.col = "Occurrences"
                   THEN Cardinality(PairRows(k[1], k[2]))
                   ELSE IdxSum(agg_in.df, PairRows(k[1], k[2]), "deaths")] :
              k \in KeptPairs}
    /\ AggDone("area") =>
         agg_out.out =
           {[year |-> k[1], type |-> k[2],
             Occurrences |-> Cardinality(PairRows(k[1], k[2]))] :
              k \in KeptPairs}

\* deaths of a region were aggregated: a row was filtered out, a pair has
\* two rows and a pair has an entry of 0
C12_Witness ==
    /\ AggDone("story")
    /\ agg_in.col = "Deaths"
    /\ agg_in.region # "Global"
    /\ Cardinality(KeptRows) < Len(agg_in.df)
    /\ \E r \in agg_out.out : r.v = 0
    /\ \E k \in KeptPairs : Cardinality(PairRows(k[1], k[2])) = 2

\* C13: the table of insight 1 for a selection is the union of the tables
\* for any two disjoint non-empty parts of the selection, and in the TOTAL
\* mode the total of a drawn year is the number, and the sum of deaths, of
\* all rows of that year with a selected type.
C13_AdditiveOverTypes ==
    AggDone("insight") =>
      /\ \A A \in SUBSET agg_in.selected \ {{}, agg_in.selected} :
           agg_out.out =
             build_insight1_agg(agg_in.df, A)
               \cup build_insight1_agg(agg_in.df, agg_in.selected \ A)
      /\ {r.year : r \in agg_out.total} = {r.year : r \in agg_out.shown}
      /\ \A r \in agg_out.total :
           LET rows == {i \in KeptRows : agg_in.df[i].year = r.year}
           IN  /\ r.Occurrences = Cardinality(rows)
               /\ r.Deaths = IdxSum(agg_in.df, rows, "deaths")
               /\ r.Occurrences =
                    SumSet({x \in agg_out.shown : x.year = r.year},
                           "Occurrences")
               /\ r.Deaths =
                    SumSet({x \in agg_out.shown : x.year = r.year}, "Deaths")

\* two types are selected and a drawn year has rows of both
C13_Witness ==
    /\ AggDone("insight")
    /\ Cardinality(agg_in.selected) = 2
    /\ \E r \in agg_out.total :
         /\ Cardinality({x \in agg_out.shown : x.year = r.year}) = 2
         /\ r.Deaths > 0

\* C14: filtering by the same inclusive year range a second time changes
\* nothing: the story's aggregation of the table it has filtered already,
\* and the area chart's table filtered again, equal the result of filtering
\* once.
C14_YearFilterIdempotent ==
    (AggDone("story") \/ AggDone("area")) => agg_out.again = agg_out.out

\* a story aggregation whose year filter dropped a row and kept one of the
\* end year
C14_Witness ==
    /\ AggDone("story")
    /\ \E i \in DOMAIN agg_in.df : agg_in.df[i].year > agg_in.b
    /\ \E r \in agg_out.out : r.y = agg_in.b

\* the rows the globe retains: of a selected type and before the last year
\* of the selected rows (250-251)
GlobeRetained ==
    LET sel == {i \in DOMAIN agg_in.df : agg_in.df[i].type \in agg_in.selected}
    IN  {i \in sel : \E j \in sel : agg_in.df[i].year < agg_in.df[j].year}

\* the region's aggregate of a year over the retained rows
GlobeValue(y, region) ==
    LET g == {i \in GlobeRetained : agg_in.df[i].year = y
                                      /\ agg_in.df[i].region = region}
    IN  IF agg_in.col = "Total Occurrences" THEN Cardinality(g)
        ELSE IF agg_in.col = "Total Deaths" THEN IdxSum(agg_in.df, g, "deaths")
        ELSE IdxSum(agg_in.df, g, "affected")

\* C15: for every year and region with a retained row, every country that
\* any row of the unfiltered table puts in that region has exactly one row of
\* the map table for that year, carrying the region's aggregate; a country
\* of a region without retained rows has exactly one row and its value is 0.
C15_RegionValueFansOut ==
    AggDone("globe") =>
      \A j \in DOMAIN agg_in.df :
        LET rows == {r \in agg_out.out :
                       r.region = agg_in.df[j].region
                         /\ r.iso = agg_in.df[j].iso}
            here == {i \in GlobeRetained :
                       agg_in.df[i].region = agg_in.df[j].region}
        IN  /\ \A i \in here :
                 {r \in rows : r.matched /\ r.year = agg_in.df[i].year}
                   = {[region |-> agg_in.df[j].region,
                       iso |-> agg_in.df[j].iso, matched |-> TRUE,
                       year |-> agg_in.df[i].year,
                       Value |-> GlobeValue(agg_in.df[i].year,
                                            agg_in.df[j].region)]}
            /\ \A r \in rows :
                 r.matched => \E i \in here : agg_in.df[i].year = r.year
            /\ here = {} =>
                 rows = {[region |-> agg_in.df[j].region,
                          iso |-> agg_in.df[j].iso, matched |-> FALSE,
                          year |-> 0, Value |-> 0]}

\* two countries of one region carry the same aggregate of 2 and a country
\* of another region carries 0
C15_Witness ==
    /\ AggDone("globe")
    /\ \E r, q \in agg_out.out :
         /\ r.matched /\ q.matched
         /\ r.region = q.region /\ r.year = q.year /\ r.iso # q.iso
         /\ r.Value = q.Value
    /\ \E r \in agg_out.out : ~r.matched /\ r.Value = 0

(***************************************************************************)
(* Claims about the Korea table (SpecKorea).                               *)
(***************************************************************************)

\* C16: when the Korea table has neither name of a required column, its
\* processing ends with the reported error that names the missing field and
\* lists the columns of the table, and no normalized table or chart is
\* made; no other end is possible.
C16_MissingColumnReported ==
    (MissingField(kor_in) # "none" /\ kor_pc # "read") =>
      /\ kor_pc \in {"loaded", "failed"}
      /\ kor_pc = "failed" =>
           /\ kor_tab.err.field = MissingField(kor_in)
           /\ kor_tab.err.columns = kor_tab.loaded.cols
           /\ kor_tab.out = NoneVal

\* the name a raw table has for the year and for the deaths
RawYearCol == IF "Year" \in kor_in.cols THEN "Year" ELSE "Start Year"

RawDeathsCol ==
    IF "Total_Deaths" \in kor_in.cols THEN "Total_Deaths" ELSE "Total Deaths"

\* C17: normalize_korea_df applied to its own result returns that result;
\* applied again to the same table it returns the same table; the table
\* with the legacy names Start Year / Total Deaths and the table with the
\* names Year / Total_Deaths give the same result, and the renames leave
\* every value as it was.
C17_NormalizeIdempotent ==
    kor_pc = "again" =>
      /\ kor_tab.again = kor_tab.out
      /\ normalize_korea_df(kor_tab.loaded) = kor_tab.out
      /\ kor_tab.twin = kor_tab.out
      /\ normalize_korea_df(KoreaRenames(kor_in)) = kor_tab.twin
      /\ \A i \in DOMAIN kor_in.rows :
           /\ KoreaRenames(kor_in).rows[i]["Year"] = kor_in.rows[i][RawYearCol]
           /\ KoreaRenames(kor_in).rows[i]["Total_Deaths"]
                = kor_in.rows[i][RawDeathsCol]
           /\ KoreaRenames(kor_in).rows[i]["Disaster Type"]
                = kor_in.rows[i]["Disaster Type"]

\* a table with the legacy names, whose normalization merged or dropped rows
\* and kept a row with deaths
C17_Witness ==
    /\ kor_pc = "again"
    /\ {"Start Year", "Total Deaths"} \subseteq kor_in.cols
    /\ Len(kor_tab.out.rows) >= 1
    /\ Len(kor_tab.out.rows) < Len(kor_in.rows)
    /\ \E i \in DOMAIN kor_tab.out.rows :
         kor_tab.out.rows[i]["Total_Deaths"].n >= 2

\* the source rows of a (year, type) pair: the year numeric, the type as text
KorSourceRows(y, t) ==
    {i \in DOMAIN kor_in.rows :
       /\ kor_in.rows[i][RawYearCol].kind \in {"num", "digits"}
       /\ kor_in.rows[i][RawYearCol].n = y
       /\ AsStr(kor_in.rows[i]["Disaster Type"]) = t}

RECURSIVE KorDeathsOf(_)
\* the deaths of source rows, a missing or non-numeric count being 0
KorDeathsOf(idx) ==
    IF idx = {} THEN 0
    ELSE LET i == CHOOSE x \in idx : TRUE
             c == kor_in.rows[i][RawDeathsCol]
         IN  (IF c.kind \in {"num", "digits"} THEN c.n ELSE 0)
               + KorDeathsOf(idx \ {i})

\* C18: in the normalized Korea table a (Year, Disaster Type) pair has at
\* most one row; the pair occurs among the source rows with a numeric year,
\* and the row's Total_Deaths is the sum of the deaths of all source rows of
\* the pair, a missing or non-numeric count being 0.
C18_OneRowPerYearAndType ==
    kor_pc \in {"normalized", "again"} =>
      LET out == kor_tab.out.rows
      IN  /\ \A i, j \in DOMAIN out :
                (out[i]["Year"] = out[j]["Year"]
                   /\ out[i]["Disaster Type"] = out[j]["Disaster Type"])
                  => i = j
          /\ \A i \in DOMAIN out :
                LET src == KorSourceRows(out[i]["Year"].n,
                                         out[i]["Disaster Type"].s)
                IN  /\ src # {}
                    /\ out[i]["Total_Deaths"].kind = "num"
                    /\ out[i]["Total_Deaths"].n = KorDeathsOf(src)
          /\ \A i \in DOMAIN kor_in.rows :
                kor_in.rows[i][RawYearCol].kind \in {"num", "digits"}
                  => \E j \in DOMAIN out :
                       /\ out[j]["Year"].n = kor_in.rows[i][RawYearCol].n
                       /\ out[j]["Disaster Type"].s
                            = AsStr(kor_in.rows[i]["Disaster Type"])

\* two source rows of one pair were summed to 3 and a row without a year
\* was dropped
C18_Witness ==
    /\ kor_pc = "normalized"
    /\ Len(kor_in.rows) = 3
    /\ Len(kor_tab.out.rows) = 1
    /\ kor_tab.out.rows[1]["Total_Deaths"].n = 3
    /\ \E i \in DOMAIN kor_in.rows : kor_in.rows[i][RawYearCol].kind = "nan"

(***************************************************************************)
(* Claims about the story (SpecStory) and the globe's reset (SpecGlobe).   *)
(***************************************************************************)

\* C23: story_step is in 0..4 whenever it is stored.  On the page a finished
\* run has left, Start is there only at step 0 and Next only at steps 1 to
\* 3, and the callback of every story button that is there leaves the step
\* in 0..4: Back not below 0, Start and Next not above 4.
C23_StoryStepInRange ==
    /\ Has(session_state, STEP) => session_state[STEP] \in 0..4
    /\ (Ended /\ widgets \cap {"btn_start", "btn_next", "btn_back"} # {}) =>
         /\ Has(session_state, STEP)
         /\ "btn_start" \in widgets =>
              /\ session_state[STEP] = 0
              /\ next_step(session_state)[STEP] \in 0..4
         /\ "btn_next" \in widgets =>
              /\ session_state[STEP] \in 1..3
              /\ next_step(session_state)[STEP] \in 0..4
         /\ "btn_back" \in widgets =>
              /\ session_state[STEP] > 0
              /\ prev_step(session_state)[STEP] \in 0..4

\* the last of six clicks was handled and the story is at step 4, which it
\* had reached and left before
C23_Witness ==
    /\ Ended
    /\ n_clicks = 0
    /\ session_state[STEP] = 4
    /\ widgets \cap {"btn_start", "btn_next", "btn_back"} = {"btn_back"}

StoryChoiceKeys ==
    {K1("story_region"), K1("story_year_end"), K1("story_metric_mode")}

\* C24: after Reset Story no step, region, end year or focus is stored; the
\* run that stores the step anew stores 0 and no choice, and the runs that
\* store the region, the end year and the focus anew store Global, the
\* maximum allowed year and Occurrences, whatever was stored before the
\* reset.
C24_ResetStoryRestoresDefaults ==
    /\ [](~Has(session_state, STEP)
            => DOMAIN session_state \cap StoryChoiceKeys = {})
    /\ [][(~Has(session_state, STEP) /\ Has(session_state', STEP))
            => /\ session_state'[STEP] = 0
               /\ DOMAIN session_state' \cap StoryChoiceKeys = {}]_vars
    /\ [][(~Has(session_state, K1("story_region"))
             /\ Has(session_state', K1("story_region")))
            => session_state'[K1("story_region")] = "Global"]_vars
    /\ [][(~Has(session_state, K1("story_year_end"))
             /\ Has(session_state', K1("story_year_end")))
            => session_state'[K1("story_year_end")] = StoryMaxYear]_vars
    /\ [][(~Has(session_state, K1("story_metric_mode"))
             /\ Has(session_state', K1("story_metric_mode")))
            => session_state'[K1("story_metric_mode")] = "Occurrences"]_vars

\* Reset Story was clicked as the fourth click of a session: the step the
\* first run stored is gone, and the next run is about to start
C24_Witness ==
    /\ pc = "start"
    /\ n_clicks = MaxStoryClicks - 4
    /\ ~Has(session_state, STEP)
    /\ Has(session_state, K1("globe_render_key"))

\* the run is at the globe section and sees the click on Reset Globe
AtResetClick == pc = "globe" /\ clicked = "btn_reset_globe"

\* the run is at the globe section with a reset pending
AtPendingReset ==
    /\ pc = "globe"
    /\ Has(session_state, K1("globe_reset"))
    /\ session_state[K1("globe_reset")]

\* C25: the run that sees the click on Reset Globe raises globe_reset, makes
\* globe_render_key one larger and starts the script anew; that next run
\* checks every top-5 type, stores the top-5 list as globe_types and Total
\* Occurrences as globe_metric and clears globe_reset, the key staying as it
\* is; the key changes at no other step, globe_reset is raised only until
\* that globe section, and it is False whenever the globe figure is built.
C25_GlobeResetHandledInNextRun ==
    /\ [][AtResetClick =>
            /\ pc' = "start"
            /\ session_state'[K1("globe_reset")]
            /\ session_state'[K1("globe_render_key")]
                 = session_state[K1("globe_render_key")] + 1]_vars
    /\ [][AtPendingReset =>
            /\ ~session_state'[K1("globe_reset")]
            /\ \A t \in Range(top_5_disasters) :
                 session_state'[K2("globe_type", t)]
            /\ session_state'[K1("globe_types")] = top_5_disasters
            /\ session_state'[K1("globe_metric")] = "Total Occurrences"
            /\ session_state'[K1("globe_render_key")]
                 = session_state[K1("globe_render_key")]]_vars
    /\ [][(Has(session_state, K1("globe_render_key"))
             /\ session_state'[K1("globe_render_key")]
                  # session_state[K1("globe_render_key")])
            => AtResetClick]_vars
    /\ []((Has(session_state, K1("globe_reset"))
             /\ session_state[K1("globe_reset")])
            => pc \in {"start", "colormap", "globe"})
    /\ [](("globe" \in DOMAIN rendered /\ Has(session_state, K1("globe_reset")))
            => ~session_state[K1("globe_reset")])

\* a reset is pending at the globe section, the user having unchecked a type
\* and chosen another metric before the click
C25_Witness ==
    /\ AtPendingReset
    /\ session_state[K1("globe_metric")] = "Total Deaths"
    /\ \E t \in Range(top_5_disasters) : ~session_state[K2("globe_type", t)]
    /\ session_state[K1("globe_render_key")] = 1

=============================================================================
